---- MODULE Spec2Model ----
(***************************************************************************)
(* A model of the netsim network simulator of rbmk-project/x: the stack    *)
(* (port table, demultiplexer, multiplexer), the port (ReadPacket,         *)
(* WritePacket, Close), the TCP endpoint and listener, and the router.     *)
(*                                                                         *)
(* Go channels are modelled as the runtime implements them.  A buffered    *)
(* channel is a bounded queue.  An unbuffered channel has no state of its  *)
(* own: a send completes only against a receiver that is parked on the     *)
(* channel and a receive only against a parked sender.  A goroutine that   *)
(* reaches a select takes one of the cases that are ready at that moment   *)
(* (any of them, the runtime picks at random) and parks only when none is  *)
(* ready; a parked goroutine is woken by the goroutine that completes one  *)
(* of its cases (the peer of a rendezvous, or the closer of a channel).    *)
(***************************************************************************)
EXTENDS Integers, Sequences, FiniteSets, TLC

(***************************************************************************)
(* Bounds of the model.                                                    *)
(***************************************************************************)
\* Ports a run creates (the objects of the heap).
MaxPorts == 3
\* Concurrent callers of one Close.
MaxClosers == 2
\* Capacity of the buffered channels of a stack (DefaultBufferChannel in the code).
ChanCap == 2

(***************************************************************************)
(* Program constants.                                                      *)
(***************************************************************************)
IPProtocolTCP == 6
IPProtocolUDP == 17
TCPFlagFIN == 1
TCPFlagSYN == 2
TCPFlagRST == 4
TCPFlagPSH == 8
TCPFlagACK == 16
linuxDefaultTTL == 64
firstEphemeralPort == 49152

(***************************************************************************)
(* Addresses.  An IP address is a string; the two unspecified addresses    *)
(* are those of netip.IPv4Unspecified and netip.IPv6Unspecified.  The zero *)
(* netip.AddrPort (not valid) is NoAddrPort.                               *)
(***************************************************************************)
IPv4Unspecified == "0.0.0.0"
IPv6Unspecified == "::"
ClientIP4 == "c4"
ClientIP6 == "c6"
ServerIP4 == "s4"
ServerIP6 == "s6"

Is4(ip) == ip \in {IPv4Unspecified, ClientIP4, ServerIP4}
IsUnspecified(ip) == ip \in {IPv4Unspecified, IPv6Unspecified}

AddrPortFrom(ip, port) == [ip |-> ip, port |-> port]
NoAddrPort == [ip |-> "invalid", port |-> 0]
IsValid(ap) == ap.ip # "invalid"

NewPortAddr(laddr, protocol, raddr) ==
    [LocalAddr |-> laddr, Protocol |-> protocol, RemoteAddr |-> raddr]

\* The value of a nil *Port, and of a nil *Packet.
NoPort == 0
NoPacket == [TTL |-> 0, SrcAddr |-> "invalid", DstAddr |-> "invalid", IPProtocol |-> 0,
             SrcPort |-> 0, DstPort |-> 0, Flags |-> 0, Payload |-> << >>]

NewPacket(ttl, src, dst, protocol, flags, payload) ==
    [TTL |-> ttl, SrcAddr |-> src.ip, DstAddr |-> dst.ip, IPProtocol |-> protocol,
     SrcPort |-> src.port, DstPort |-> dst.port, Flags |-> flags, Payload |-> payload]

\* flags & flag != 0, for a flag that is a power of two.
HasFlag(flags, flag) == (flags \div flag) % 2 = 1

PortIds == 1..MaxPorts
Closers == 1..MaxClosers

(***************************************************************************)
(* The stacks of the model: a client and a server.                         *)
(***************************************************************************)
Stacks == {"client", "server"}
Addresses(s) == IF s = "client" THEN <<ClientIP4>> ELSE <<ServerIP4, ServerIP6>>

isLocalAddr(s, ip) == \E i \in 1..Len(Addresses(s)) : Addresses(s)[i] = ip

VARIABLES
    \* The stacks.
    ports,      \* ports[s]: the port table of stack s, a function PortAddr -> port
    nextport,   \* nextport[s][protocol]: the next ephemeral port
    stackEof,   \* stackEof[s]: how many times close(ns.eof) ran (closed when > 0)
    stackOnce,  \* stackOnce[s]: the state of ns.eofOnce
    stackIn,    \* stackIn[s]: the buffered input channel
    stackOut,   \* stackOut[s]: the buffered output channel
    demuxPc,    \* demuxPc[s]: where demuxLoop is
    demuxPkt,   \* demuxPkt[s]: the packet demux is delivering
    demuxPort,  \* demuxPort[s]: the port demux is delivering to
    panicked,   \* a goroutine panicked: the process is gone
    \* The ports (objects 1..nextId are allocated).
    nextId,     \* the number of ports created so far
    portAddr,   \* portAddr[p]: the PortAddr of port p
    portStack,  \* portStack[p]: the stack of port p
    portEof,    \* portEof[p]: how many times close(up.eof) ran
    portOnce,   \* portOnce[p]: the state of up.eofOnce
    rd, wd,     \* the read and write deadline of each port
    muxPc,      \* muxPc[p]: where muxOutgoingTraffic(p) is
    muxPkt,     \* muxPkt[p]: the packet it is forwarding
    rdPc,       \* rdPc[p]: where the ReadPacket call on p is
    rdRes,      \* rdRes[p]: its result: [err, pkt]
    wrPc,       \* wrPc[p]: where the WritePacket call on p is
    wrPkt,      \* wrPkt[p]: the packet it built
    wrRes,      \* wrRes[p]: its result
    closePc,    \* closePc[p][k]: where caller k of Port.Close is
    stackClosePc, \* stackClosePc[s][k]: where caller k of Stack.Close is
    \* The link.
    linkEof,    \* how many times close(lnk.eof) ran
    linkOnce,   \* the state of lnk.eofOnce
    linkClosePc, \* linkClosePc[k]: where caller k of Link.Close is
    \* The router (one readLoop goroutine per attached stack).
    routerPc,   \* routerPc[s]: where readLoop(s) is
    routerPkt,  \* routerPkt[s]: the packet it is handling
    filters,    \* r.filters: the chain of filters, in the order of AddFilter
    handled,    \* what the last handle did: the filters it called, its calls of route
    \* History of the calls, for the properties.
    apiRes,     \* the last call of Listen, ListenPacket, dial or NewTCPConn
    closePortCalls, \* closePortCalls[p]: how many times ClosePort(p.addr) ran
    rdAfterClose,   \* rdAfterClose[p]: the ReadPacket call began after a Close returned
    wrAfterClose,   \* wrAfterClose[p]: the WritePacket call began after a Close returned
    lastDemux,  \* what demux did with the last packet
    lastFind,   \* the last lookup of the demultiplexer: [pkt, port]
    \* The TCP endpoints and listeners (one per port, indexed by the port).
    tcpPkg,     \* the TCPConn of the build: that of package netsim or of package netstack
    connPc,     \* connPc[p]: where the Connect or Accept call on the TCPConn of p is
    connErr,    \* connErr[p]: the error it returned
    connCtx,    \* connCtx[p]: the context of Connect has a deadline
    connBuf,    \* connBuf[p]: c.buf, the bytes received and not yet returned
    readPc,     \* readPc[p]: where the TCPConn.Read call is
    readLen,    \* readLen[p]: len(buf) of that call
    readRes,    \* readRes[p]: its result: [n, err, data]
    acceptPc,   \* acceptPc[p]: where the TCPListener.Accept call on p is
    acceptPkt,  \* acceptPkt[p]: the SYN it is answering
    acceptConn, \* acceptConn[p]: the child port it created
    acceptRes,  \* acceptRes[p]: its result: [conn, err]
    tcpClosePc, \* tcpClosePc[p]: where the TCPConn.Close call is
    rdCaller,   \* rdCaller[p]: who called the ReadPacket in progress
    wrCaller,   \* wrCaller[p]: who called the WritePacket in progress
    \* More history.
    lateDeadline, \* lateDeadline[p]: the deadlines that expired after Close began
    synSent,    \* synSent[p]: the SYN packets Connect wrote
    connFirst,  \* connFirst[p]: the outcome of the ReadPacket of Connect
    arrived,    \* arrived[p]: the payload bytes of the packets Read received, in order
    returned,   \* returned[p]: the bytes Read returned, in order
    \* What the user of a port wrote and read last.
    lastPut,    \* lastPut[p]: the payload of the last WritePacket call of the user
    lastGot,    \* lastGot[p]: the payload of the last packet ReadPacket gave the user
    lastSet,    \* lastSet[p]: the time of the last Set of the deadlines rd and wd of p
    \* The Blackholer of package censor and the goroutines that call its Filter.
    now,        \* the clock: what time.Now() returns
    bhConf,     \* the Blackholer: [made, target, pattern, duration]
    blocked,    \* t.blocked: a function from five-tuples to deadlines
    bhPc,       \* bhPc[g]: where the call of Filter of goroutine g is
    bhCall,     \* bhCall[g]: its packet, the time it read and its result: [pkt, now, target]
    bhHist,     \* the calls of Filter that returned, in order: [pkt, now, target]
    \* The filters of package censor that keep no state.
    resetter,   \* the TCPResetter: [made, target, pattern]
    natter,     \* the DNatter: [made, source, target, repl]
    filterRes,  \* the last call of their Filter: [pkt, out, target, inject]
    forwarded,  \* history: the flows whose destination the DNatter has rewritten
    \* The Database of package dns.
    names,      \* Database.names: the records of each name, in the order they were added
    dnsRes,     \* the last call of Handle: [query, wrote, resp]
    inserted,   \* history: the addresses given to AddAddresses for each name, in order
    \* The Pool of package closepool (and of package connpool).
    handles,    \* Pool.handles: the closers of the pool, [id, err]
    mu,         \* Pool.mu: the goroutine that holds it, "none" when it is free
    addPc,      \* where each goroutine that adds is in Add
    addArg,     \* the closer it adds
    poolPc,     \* where the goroutine that closes is in Close
    conns,      \* conns of Close
    closeIdx,   \* the closers of conns that the loop of Close has still to close
    errv,       \* errv of Close
    poolRes,    \* what Close returned: the joined errors, << >> for nil
    added,      \* history: the ids of the closers in the order they were appended
    addedAtClose, \* history: added when Close took the closers
    closeLog,   \* history: the ids of the closers in the order their Close was called
    \* The connWrapper of package netcore.
    wrapper,    \* [made, logger, err]: whether netx has a Logger, and what conn.Close returns
    closeonce,  \* connWrapper.closeonce: "new", "running" or "done"
    wrapPc,     \* where each caller is in connWrapper.Close
    wrapErr,    \* the named result err of each call
    logs,       \* the messages given to the Logger, in order
    closeCount, \* history: the calls of conn.Close
    wrapRets,   \* history: what the calls of connWrapper.Close returned, in order
    \* Network.sequentialDial of package netcore.
    sd,         \* the call: [pc, endpoints, fx, idx, errv, conn, err, dialed]
    \* A deadline of package netsim with its timers and the callers of Set.
    dl,         \* [mu, cancel, closes, timer, timers, pc, arg, calls]
    \* One forward goroutine of package geolink with its ticker and its devices.
    gl          \* [pc, packets, pkt, period, tick, srcOut, dstIn, srcEof, dstEof, sent, got]

stackVars == <<ports, nextport, stackEof, stackOnce, stackIn, stackOut,
               demuxPc, demuxPkt, demuxPort, panicked>>
portVars  == <<nextId, portAddr, portStack, portEof, portOnce, rd, wd, muxPc, muxPkt>>
callVars  == <<rdPc, rdRes, wrPc, wrPkt, wrRes, closePc, stackClosePc>>
linkVars  == <<linkEof, linkOnce, linkClosePc>>
routerVars == <<routerPc, routerPkt, filters, handled>>
histVars  == <<apiRes, closePortCalls, rdAfterClose, wrAfterClose, lastDemux, lastFind>>
connVars  == <<connPc, connErr, connCtx>>
readVars  == <<connBuf, readPc, readLen, readRes>>
acceptVars == <<acceptPc, acceptPkt, acceptConn, acceptRes>>
tcpVars   == <<tcpPkg, connVars, readVars, acceptVars, tcpClosePc, rdCaller, wrCaller>>
obsVars   == <<lateDeadline, synSent, connFirst, arrived, returned>>
\* What the actions of the stack and of the port leave alone.
censorVars == <<now, bhConf, blocked, bhPc, bhCall, bhHist>>
filterVars == <<resetter, natter, filterRes, forwarded>>
dnsVars == <<names, dnsRes, inserted>>
poolVars == <<handles, mu, addPc, addArg, poolPc, conns, closeIdx, errv, poolRes, added,
              addedAtClose, closeLog>>
wrapVars == <<wrapper, closeonce, wrapPc, wrapErr, logs, closeCount, wrapRets>>
dialVars == <<sd>>
timerVars == <<dl>>
geoVars == <<gl>>
libVars   == <<censorVars, filterVars, dnsVars, poolVars, wrapVars, dialVars, timerVars,
               geoVars>>
userVars  == <<lastPut, lastGot, lastSet, libVars>>
upperVars == <<linkVars, userVars, routerVars, tcpVars, obsVars>>
vars == <<stackVars, portVars, callVars, linkVars, userVars, routerVars, histVars, tcpVars,
         obsVars>>

(***************************************************************************)
(* Stack.findPortLocked: the lookup of the demultiplexer.                  *)
(***************************************************************************)
Lookup(table, addr) == IF addr \in DOMAIN table THEN table[addr] ELSE NoPort

\* Steps 3 and 4 of the loop body, for one unspecified address.
findPortWildcard(table, pkt, ipAddr) ==
    LET a3 == NewPortAddr(AddrPortFrom(ipAddr, pkt.DstPort), pkt.IPProtocol,
                          AddrPortFrom(pkt.SrcAddr, pkt.SrcPort))
        a4 == NewPortAddr(AddrPortFrom(ipAddr, pkt.DstPort), pkt.IPProtocol, NoAddrPort)
    IN  IF Lookup(table, a3) # NoPort THEN Lookup(table, a3)
        ELSE Lookup(table, a4)

\* The lookup with the three-tuple tried before the five-tuple.
findPortLockedThreeFirst(table, pkt) ==
    LET a1 == NewPortAddr(AddrPortFrom(pkt.DstAddr, pkt.DstPort), pkt.IPProtocol,
                          AddrPortFrom(pkt.SrcAddr, pkt.SrcPort))
        a2 == NewPortAddr(AddrPortFrom(pkt.DstAddr, pkt.DstPort), pkt.IPProtocol, NoAddrPort)
    IN  IF Lookup(table, a2) # NoPort THEN Lookup(table, a2)
        ELSE IF Lookup(table, a1) # NoPort THEN Lookup(table, a1)
        ELSE IF findPortWildcard(table, pkt, IPv4Unspecified) # NoPort
             THEN findPortWildcard(table, pkt, IPv4Unspecified)
        ELSE findPortWildcard(table, pkt, IPv6Unspecified)

findPortLocked(table, pkt) ==
    LET a1 == NewPortAddr(AddrPortFrom(pkt.DstAddr, pkt.DstPort), pkt.IPProtocol,
                          AddrPortFrom(pkt.SrcAddr, pkt.SrcPort))
        a2 == NewPortAddr(AddrPortFrom(pkt.DstAddr, pkt.DstPort), pkt.IPProtocol, NoAddrPort)
    IN  IF Lookup(table, a1) # NoPort THEN Lookup(table, a1)
        ELSE IF Lookup(table, a2) # NoPort THEN Lookup(table, a2)
        ELSE IF findPortWildcard(table, pkt, IPv4Unspecified) # NoPort
             THEN findPortWildcard(table, pkt, IPv4Unspecified)
        ELSE findPortWildcard(table, pkt, IPv6Unspecified)


(***************************************************************************)
(* The state after construction: NewStack for every stack, no port yet.    *)
(***************************************************************************)
NoDeadline == [closed |-> FALSE, timer |-> "nil"]
NoResult == [err |-> "none", pkt |-> NoPacket]
NoApiRes == [op |-> "none", err |-> "nil", port |-> NoPort]
NoDemux == [pkt |-> NoPacket, port |-> NoPort, outcome |-> "none", room |-> FALSE, emitted |-> << >>]
EmptyTable == [a \in {} |-> NoPort]
NoPortAddr == NewPortAddr(NoAddrPort, 0, NoAddrPort)

InitStacks ==
    /\ ports = [s \in Stacks |-> EmptyTable]
    /\ nextport = [s \in Stacks |->
                      [pr \in {IPProtocolTCP, IPProtocolUDP} |-> firstEphemeralPort]]
    /\ stackEof = [s \in Stacks |-> 0]
    /\ stackOnce = [s \in Stacks |-> "new"]
    /\ stackIn = [s \in Stacks |-> << >>]
    /\ stackOut = [s \in Stacks |-> << >>]
    /\ demuxPc = [s \in Stacks |-> "loop"]
    /\ demuxPkt = [s \in Stacks |-> NoPacket]
    /\ demuxPort = [s \in Stacks |-> NoPort]
    /\ panicked = FALSE

InitPorts ==
    /\ nextId = 0
    /\ portAddr = [p \in PortIds |-> NoPortAddr]
    /\ portStack = [p \in PortIds |-> "none"]
    /\ portEof = [p \in PortIds |-> 0]
    /\ portOnce = [p \in PortIds |-> "new"]
    /\ rd = [p \in PortIds |-> NoDeadline]
    /\ wd = [p \in PortIds |-> NoDeadline]
    /\ muxPc = [p \in PortIds |-> "none"]
    /\ muxPkt = [p \in PortIds |-> NoPacket]

InitCalls ==
    /\ rdPc = [p \in PortIds |-> "idle"]
    /\ rdRes = [p \in PortIds |-> NoResult]
    /\ wrPc = [p \in PortIds |-> "idle"]
    /\ wrPkt = [p \in PortIds |-> NoPacket]
    /\ wrRes = [p \in PortIds |-> "none"]
    /\ closePc = [p \in PortIds |-> [k \in Closers |-> "idle"]]
    /\ stackClosePc = [s \in Stacks |-> [k \in Closers |-> "idle"]]

InitHist ==
    /\ apiRes = NoApiRes
    /\ closePortCalls = [p \in PortIds |-> 0]
    /\ rdAfterClose = [p \in PortIds |-> FALSE]
    /\ wrAfterClose = [p \in PortIds |-> FALSE]
    /\ lastDemux = NoDemux
    /\ lastFind = [pkt |-> NoPacket, port |-> NoPort]

InitLink ==
    /\ linkEof = 0
    /\ linkOnce = "new"
    /\ linkClosePc = [k \in Closers |-> "idle"]

InitRouter ==
    /\ routerPc = [s \in Stacks |-> "loop"]
    /\ routerPkt = [s \in Stacks |-> NoPacket]
    /\ filters = << >>
    /\ handled = << >>

NoReadRes == [n |-> 0, err |-> "none", data |-> << >>]
NoAcceptRes == [conn |-> NoPort, err |-> "none"]
NoFirst == [err |-> "none", flags |-> 0]
TCPPackages == {"netsim", "netstack"}

InitTcp ==
    /\ connPc = [p \in PortIds |-> "idle"]
    /\ connErr = [p \in PortIds |-> "none"]
    /\ connCtx = [p \in PortIds |-> FALSE]
    /\ connBuf = [p \in PortIds |-> << >>]
    /\ readPc = [p \in PortIds |-> "idle"]
    /\ readLen = [p \in PortIds |-> 0]
    /\ readRes = [p \in PortIds |-> NoReadRes]
    /\ acceptPc = [p \in PortIds |-> "idle"]
    /\ acceptPkt = [p \in PortIds |-> NoPacket]
    /\ acceptConn = [p \in PortIds |-> NoPort]
    /\ acceptRes = [p \in PortIds |-> NoAcceptRes]
    /\ tcpClosePc = [p \in PortIds |-> "idle"]
    /\ rdCaller = [p \in PortIds |-> "none"]
    /\ wrCaller = [p \in PortIds |-> "none"]

(***************************************************************************)
(* Package dns: the Database of DNS records, and the messages of the       *)
(* protocol as the bytes of a payload.                                     *)
(***************************************************************************)
TypeA == 1
TypeCNAME == 5
TypeAAAA == 28
TypeMX == 15
ClassINET == 1
ClassCHAOS == 3
OpcodeQuery == 0
RcodeSuccess == 0
RcodeNameError == 3
RcodeRefused == 5
DefaultTtl == 3600
maxloops == 10

\* The domain names of the model and dns.CanonicalName: lower case with a final dot.
DomainNames == {"dns.google", "DNS.Google.", "dns.google.", "example.com", "example.com."}
CanonicalName(name) ==
    IF name \in {"dns.google", "DNS.Google.", "dns.google."} THEN "dns.google."
    ELSE IF name \in {"example.com", "example.com."} THEN "example.com."
    ELSE name
CanonicalNames == {CanonicalName(n) : n \in DomainNames}

\* The IP addresses of the model as strings; ipAddr.To4() is nil for the IPv6 ones.
IPv4Strings == {"10.0.0.1", "8.8.8.8", "8.8.4.4"}
IPv6Strings == {"2001:4860:4860::8888"}
To4IsNil(addr) == addr \in IPv6Strings

\* The strings of a message on the wire: the index in this table.
WireStrings ==
    <<"dns.google.", "example.com.", "10.0.0.1", "8.8.8.8", "8.8.4.4", "2001:4860:4860::8888",
      "dns.google", "DNS.Google.", "example.com">>
WireCode(s) == CHOOSE i \in 1..Len(WireStrings) : WireStrings[i] = s

NewRR(name, rrtype, data) ==
    [Name |-> name, Rrtype |-> rrtype, Class |-> ClassINET, Ttl |-> DefaultTtl, Data |-> data]
NewQuestion(name, qtype, qclass) == [Name |-> name, Qtype |-> qtype, Qclass |-> qclass]
NewMsg(id, response, opcode, rcode, question, answer) ==
    [Id |-> id, Response |-> response, Opcode |-> opcode, Rcode |-> rcode,
     Question |-> question, Answer |-> answer]

\* Msg.Pack: the header with the two counts, then three numbers for each
\* question and five for each record of the answer.
RECURSIVE PackQuestions(_)
PackQuestions(qs) ==
    IF qs = << >> THEN << >>
    ELSE <<WireCode(qs[1].Name), qs[1].Qtype, qs[1].Qclass>> \o PackQuestions(Tail(qs))
RECURSIVE PackRRs(_)
PackRRs(rrs) ==
    IF rrs = << >> THEN << >>
    ELSE <<WireCode(rrs[1].Name), rrs[1].Rrtype, rrs[1].Class, rrs[1].Ttl,
           WireCode(rrs[1].Data)>> \o PackRRs(Tail(rrs))
Pack(m) ==
    <<m.Id, IF m.Response THEN 1 ELSE 0, m.Opcode, m.Rcode, Len(m.Question), Len(m.Answer)>>
        \o PackQuestions(m.Question) \o PackRRs(m.Answer)

\* Msg.Unpack: an error for bytes that are not a message.
IsWireCode(c) == c \in 1..Len(WireStrings)
UnpackQuestion(b, at) == NewQuestion(WireStrings[b[at]], b[at + 1], b[at + 2])
UnpackRR(b, at) ==
    [Name |-> WireStrings[b[at]], Rrtype |-> b[at + 1], Class |-> b[at + 2], Ttl |-> b[at + 3],
     Data |-> WireStrings[b[at + 4]]]
Unpack(b) ==
    IF Len(b) < 6 THEN [err |-> "unpack", msg |-> NewMsg(0, FALSE, 0, 0, << >>, << >>)]
    ELSE IF \/ b[2] \notin {0, 1}
            \/ Len(b) # 6 + 3 * b[5] + 5 * b[6]
            \/ \E i \in 1..b[5] : ~IsWireCode(b[4 + 3 * i])
            \/ \E i \in 1..b[6] : ~IsWireCode(b[2 + 3 * b[5] + 5 * i])
                                    \/ ~IsWireCode(b[6 + 3 * b[5] + 5 * i])
    THEN [err |-> "unpack", msg |-> NewMsg(0, FALSE, 0, 0, << >>, << >>)]
    ELSE [err |-> "nil",
          msg |-> NewMsg(b[1], b[2] = 1, b[3], b[4],
                         [i \in 1..b[5] |-> UnpackQuestion(b, 4 + 3 * i)],
                         [i \in 1..b[6] |-> UnpackRR(b, 2 + 3 * b[5] + 5 * i)])]

\* Msg.SetReply: the reply to query with no answer yet.
SetReply(query) == NewMsg(query.Id, TRUE, query.Opcode, RcodeSuccess, query.Question, << >>)

\* NewDatabase: the map of names is empty (a name with no record is not in the map).
NewDatabase == [n \in CanonicalNames |-> << >>]

\* The record AddAddresses makes of addr for name.
AddressRR(name, addr) ==
    IF To4IsNil(addr) THEN NewRR(CanonicalName(name), TypeAAAA, addr)
    ELSE NewRR(CanonicalName(name), TypeA, addr)

\* Database.AddAddresses: for each name, canonical, the records of the addresses
\* are appended in the order of the addresses.
RECURSIVE AppendAddresses(_, _, _)
AppendAddresses(db, name, addresses) ==
    IF addresses = << >> THEN db
    ELSE AppendAddresses([db EXCEPT ![name] = Append(@, AddressRR(name, addresses[1]))],
                         name, Tail(addresses))
RECURSIVE AddAddressesTo(_, _, _)
AddAddressesTo(db, domainNames, addresses) ==
    IF domainNames = << >> THEN db
    ELSE AddAddressesTo(AppendAddresses(db, CanonicalName(domainNames[1]), addresses),
                        Tail(domainNames), addresses)

\* The target of the first CNAME among the records, "" when there is none.
RECURSIVE firstCNAME(_)
firstCNAME(rrs) ==
    IF rrs = << >> THEN ""
    ELSE IF rrs[1].Rrtype = TypeCNAME THEN rrs[1].Data
    ELSE firstCNAME(Tail(rrs))

\* Database.lookup from the round idx of its loop on, with the records rrs
\* collected so far: all the records of a name that has one of the type, else
\* the search goes on from the target of its first CNAME.
RECURSIVE lookupFrom(_, _, _, _, _)
lookupFrom(db, qtype, name, idx, rrs) ==
    IF idx >= maxloops THEN [rrs |-> << >>, found |-> FALSE]
    ELSE IF name \notin DOMAIN db \/ db[name] = << >> THEN [rrs |-> << >>, found |-> FALSE]
    ELSE LET interim == db[name]
             all == rrs \o interim
         IN  IF \E i \in 1..Len(interim) : qtype = interim[i].Rrtype
             THEN [rrs |-> all, found |-> TRUE]
             ELSE IF firstCNAME(interim) = "" THEN [rrs |-> << >>, found |-> FALSE]
             ELSE lookupFrom(db, qtype, firstCNAME(interim), idx + 1, all)

lookup(db, qtype, name) == lookupFrom(db, qtype, name, 0, << >>)

\* Database.Handle: the bytes it writes for rawQuery, and whether it writes.
HandleQuery(db, rawQuery) ==
    LET u == Unpack(rawQuery)
        query == u.msg
        q0 == query.Question[1]
        l == lookup(db, q0.Qtype, CanonicalName(q0.Name))
        response ==
            IF q0.Qclass # ClassINET
            THEN [SetReply(query) EXCEPT !.Rcode = RcodeRefused]
            ELSE IF q0.Qtype \in {TypeA, TypeAAAA, TypeCNAME}
            THEN IF l.found THEN [SetReply(query) EXCEPT !.Answer = l.rrs]
                 ELSE [SetReply(query) EXCEPT !.Rcode = RcodeNameError]
            ELSE [SetReply(query) EXCEPT !.Rcode = RcodeNameError]
    IN  IF u.err # "nil" THEN [query |-> rawQuery, wrote |-> FALSE, resp |-> << >>]
        ELSE IF query.Response \/ query.Opcode # OpcodeQuery \/ Len(query.Question) # 1
        THEN [query |-> rawQuery, wrote |-> FALSE, resp |-> << >>]
        ELSE [query |-> rawQuery, wrote |-> TRUE, resp |-> Pack(response)]

\* How many of the names are n in canonical form, and s repeated k times.
Mentions(domainNames, n) ==
    Cardinality({i \in 1..Len(domainNames) : CanonicalName(domainNames[i]) = n})
RECURSIVE Times(_, _)
Times(s, k) == IF k = 0 THEN << >> ELSE s \o Times(s, k - 1)

\* The two methods as steps of the user of the Database.
AddAddresses(domainNames, addresses) ==
    /\ names' = AddAddressesTo(names, domainNames, addresses)
    /\ inserted' = [n \in CanonicalNames |->
                       inserted[n] \o Times(addresses, Mentions(domainNames, n))]
    /\ UNCHANGED dnsRes

Handle(rawQuery) ==
    /\ dnsRes' = HandleQuery(names, rawQuery)
    /\ UNCHANGED <<names, inserted>>

NoFilterCall == [pkt |-> NoPacket, now |-> 0, target |-> "none"]

\* No Blackholer has been made.
NoBlackholer == [made |-> FALSE, target |-> NoAddrPort, pattern |-> "nil", duration |-> 0]

InitCensor ==
    /\ now = 0
    /\ bhConf = NoBlackholer
    /\ blocked = [tuple \in {} |-> 0]
    /\ bhPc = [g \in Stacks |-> "idle"]
    /\ bhCall = [g \in Stacks |-> NoFilterCall]
    /\ bhHist = << >>

\* No TCPResetter and no DNatter has been made, and no Filter was called.
NoResetter == [made |-> FALSE, target |-> NoAddrPort, pattern |-> "nil"]
NoNatter == [made |-> FALSE, source |-> "invalid", target |-> NoAddrPort, repl |-> NoAddrPort]
NoFilterRes == [pkt |-> NoPacket, out |-> NoPacket, target |-> "none", inject |-> << >>]

InitFilters ==
    /\ resetter = NoResetter
    /\ natter = NoNatter
    /\ filterRes = NoFilterRes
    /\ forwarded = {}

\* NewDatabase: no name has a record, and Handle was not called.
InitDatabase ==
    /\ names = NewDatabase
    /\ dnsRes = [query |-> << >>, wrote |-> FALSE, resp |-> << >>]
    /\ inserted = [n \in CanonicalNames |-> << >>]

\* The goroutines that call Add.
Adders == {"a1", "a2"}
NoCloser == [id |-> 0, err |-> 0]

\* The zero Pool: no closer, the mutex free, no call.
InitPool ==
    /\ handles = << >>
    /\ mu = "none"
    /\ addPc = [g \in Adders |-> "idle"]
    /\ addArg = [g \in Adders |-> NoCloser]
    /\ poolPc = "idle"
    /\ conns = << >>
    /\ closeIdx = 0
    /\ errv = << >>
    /\ poolRes = << >>
    /\ added = << >>
    /\ addedAtClose = << >>
    /\ closeLog = << >>

\* The goroutines that call connWrapper.Close.
WrapCallers == {"w1", "w2"}

\* No connWrapper has been made.
InitWrap ==
    /\ wrapper = [made |-> FALSE, logger |-> FALSE, err |-> "nil"]
    /\ closeonce = "new"
    /\ wrapPc = [c \in WrapCallers |-> "idle"]
    /\ wrapErr = [c \in WrapCallers |-> "nil"]
    /\ logs = << >>
    /\ closeCount = 0
    /\ wrapRets = << >>

\* The endpoints of the model, and what the dial function gives for an endpoint.
DialEndpoints == {"1.1.1.1:80", "2.2.2.2:80", "[2001:db8::1]:80"}
NoDialFunc == [e \in DialEndpoints |-> [conn |-> "nil", err |-> "nil"]]

\* sequentialDial has not been called.
InitSequentialDial ==
    sd = [pc |-> "idle", endpoints |-> << >>, fx |-> NoDialFunc, idx |-> 0, errv |-> << >>,
          conn |-> "nil", err |-> << >>, dialed |-> << >>]

\* The goroutines that call Set on the deadline.
Setters == {"s1", "s2"}

\* A deadline as the constructor leaves it: an open channel, no timer.
InitDeadline ==
    dl = [mu |-> "free", cancel |-> 1, closes |-> <<0>>, timer |-> 0, timers |-> << >>,
          pc |-> [g \in Setters |-> "idle"], arg |-> [g \in Setters |-> "zero"],
          calls |-> 0]

\* forward as it enters its loop: the ticker runs with the period of one minute,
\* the queue is empty, the devices are open and idle.
InitGeolink ==
    gl = [pc |-> "select", packets |-> << >>, pkt |-> 0, period |-> "minute", tick |-> FALSE,
          srcOut |-> << >>, dstIn |-> << >>, srcEof |-> FALSE, dstEof |-> FALSE,
          sent |-> 0, got |-> << >>]

InitLib ==
    /\ InitCensor /\ InitFilters /\ InitDatabase /\ InitPool /\ InitWrap
    /\ InitSequentialDial /\ InitDeadline /\ InitGeolink

\* The user of no port has written or read.
InitUser ==
    /\ lastPut = [p \in PortIds |-> << >>]
    /\ lastGot = [p \in PortIds |-> << >>]
    /\ lastSet = [p \in PortIds |-> [rd |-> "none", wd |-> "none"]]
    /\ InitLib

InitObs ==
    /\ lateDeadline = [p \in PortIds |-> {}]
    /\ synSent = [p \in PortIds |-> 0]
    /\ connFirst = [p \in PortIds |-> NoFirst]
    /\ arrived = [p \in PortIds |-> << >>]
    /\ returned = [p \in PortIds |-> << >>]
    /\ InitUser

\* No TCPConn is in use: the stacks, ports and link after construction.
InitNoTcp == tcpPkg = "netstack" /\ InitTcp /\ InitObs

Init == InitStacks /\ InitPorts /\ InitCalls /\ InitLink /\ InitRouter /\ InitHist /\ InitNoTcp

Allocated(p) == p <= nextId
IsOpen(p) == Allocated(p) /\ portEof[p] = 0

(***************************************************************************)
(* Stack.newEphemeralPortNumberLocked and Stack.newPortLocked.             *)
(***************************************************************************)
MaxUint16 == 65535

newEphemeralPortNumberLocked(np, protocol) ==
    IF np[protocol] >= MaxUint16
    THEN [err |-> "EADDRINUSE", port |-> 0, nextport |-> np]
    ELSE [err |-> "nil", port |-> np[protocol],
          nextport |-> [np EXCEPT ![protocol] = np[protocol] + 1]]

\* newPortLocked without the check that the address is free.
newPortLockedNoCheck(s, op, protocol, laddr, raddr) ==
    LET addr == NewPortAddr(laddr, protocol, raddr)
        p == nextId + 1
    IN  /\ nextId < MaxPorts
        /\ nextId' = p
        /\ ports' = [ports EXCEPT ![s] =
                        [a \in DOMAIN ports[s] \cup {addr} |->
                            IF a = addr THEN p ELSE ports[s][a]]]
        /\ portAddr' = [portAddr EXCEPT ![p] = addr]
        /\ portStack' = [portStack EXCEPT ![p] = s]
        /\ muxPc' = [muxPc EXCEPT ![p] = "select"]
        /\ apiRes' = [op |-> op, err |-> "nil", port |-> p]

\* The port is created, entered in the table under its address, and its
\* muxOutgoingTraffic goroutine is started; EADDRINUSE when the address is taken.
newPortLocked(s, op, protocol, laddr, raddr) ==
    LET addr == NewPortAddr(laddr, protocol, raddr)
        p == nextId + 1
    IN  IF addr \in DOMAIN ports[s]
        THEN /\ apiRes' = [op |-> op, err |-> "EADDRINUSE", port |-> NoPort]
             /\ UNCHANGED <<nextId, ports, portAddr, portStack, muxPc>>
        ELSE /\ nextId < MaxPorts
             /\ nextId' = p
             /\ ports' = [ports EXCEPT ![s] =
                             [a \in DOMAIN ports[s] \cup {addr} |->
                                 IF a = addr THEN p ELSE ports[s][a]]]
             /\ portAddr' = [portAddr EXCEPT ![p] = addr]
             /\ portStack' = [portStack EXCEPT ![p] = s]
             /\ muxPc' = [muxPc EXCEPT ![p] = "select"]
             /\ apiRes' = [op |-> op, err |-> "nil", port |-> p]

ApiFails(op, err) ==
    /\ apiRes' = [op |-> op, err |-> err, port |-> NoPort]
    /\ UNCHANGED <<nextId, ports, portAddr, portStack, muxPc, nextport>>

\* What a call that only opens a port leaves alone.
OpenUnchanged ==
    UNCHANGED <<stackEof, stackOnce, stackIn, stackOut, demuxPc, demuxPkt, demuxPort,
                panicked, portEof, portOnce, rd, wd, muxPkt, callVars, upperVars,
                closePortCalls, rdAfterClose, wrAfterClose, lastDemux, lastFind>>

(***************************************************************************)
(* Stack.listen, below Stack.Listen and Stack.ListenPacket.                *)
(***************************************************************************)
listen(s, op, protocol, laddr) ==
    IF ~IsUnspecified(laddr.ip) /\ ~isLocalAddr(s, laddr.ip)
    THEN ApiFails(op, "EADDRNOTAVAIL")
    ELSE IF laddr.port <= 0
    THEN LET e == newEphemeralPortNumberLocked(nextport[s], protocol)
         IN  IF e.err # "nil"
             THEN ApiFails(op, e.err)
             ELSE /\ nextport' = [nextport EXCEPT ![s] = e.nextport]
                  /\ newPortLocked(s, op, protocol, AddrPortFrom(laddr.ip, e.port), NoAddrPort)
    ELSE /\ UNCHANGED nextport
         /\ newPortLocked(s, op, protocol, laddr, NoAddrPort)

Listen(s, network, address) ==
    /\ ~panicked
    /\ IF network # "tcp"
       THEN ApiFails("Listen", "EPROTONOSUPPORT")
       ELSE listen(s, "Listen", IPProtocolTCP, address)
    /\ OpenUnchanged

ListenPacket(s, network, address) ==
    /\ ~panicked
    /\ IF network # "udp"
       THEN ApiFails("ListenPacket", "EPROTONOSUPPORT")
       ELSE listen(s, "ListenPacket", IPProtocolUDP, address)
    /\ OpenUnchanged

(***************************************************************************)
(* Stack.dial: the connected port of a dial.  The loop over ns.addrs       *)
(* breaks in its first iteration on either branch, so the local address is *)
(* the first address of the stack.                                         *)
(***************************************************************************)
dialLocalAddr(s, raddr) ==
    IF Len(Addresses(s)) = 0 THEN "invalid"
    ELSE IF Is4(raddr.ip) /\ Is4(Addresses(s)[1]) THEN Addresses(s)[1]
    ELSE Addresses(s)[1]

\* A variant of dial that takes the ephemeral port number before it looks at
\* the remote address.
dialTakesPortFirst(s, op, protocol, raddr) ==
    LET e == newEphemeralPortNumberLocked(nextport[s], protocol)
    IN  IF e.err # "nil"
        THEN ApiFails(op, e.err)
        ELSE IF IsUnspecified(raddr.ip) \/ raddr.port <= 0
        THEN /\ apiRes' = [op |-> op, err |-> "EHOSTUNREACH", port |-> NoPort]
             /\ nextport' = [nextport EXCEPT ![s] = e.nextport]
             /\ UNCHANGED <<nextId, ports, portAddr, portStack, muxPc>>
        ELSE /\ nextport' = [nextport EXCEPT ![s] = e.nextport]
             /\ newPortLocked(s, op, protocol,
                              AddrPortFrom(dialLocalAddr(s, raddr), e.port), raddr)

\* The loop of the other version of Stack.dial in the source, whose test is
\* raddr.Addr().Is4() == addr.Is4(): it too breaks in its first iteration.
dialLocalAddrSameFamily(s, raddr) ==
    IF Len(Addresses(s)) = 0 THEN "invalid"
    ELSE IF Is4(raddr.ip) = Is4(Addresses(s)[1]) THEN Addresses(s)[1]
    ELSE Addresses(s)[1]

dial(s, op, protocol, raddr) ==
    IF IsUnspecified(raddr.ip) \/ raddr.port <= 0
    THEN ApiFails(op, "EHOSTUNREACH")
    ELSE IF dialLocalAddr(s, raddr) = "invalid"
    THEN ApiFails(op, "EADDRNOTAVAIL")
    ELSE LET e == newEphemeralPortNumberLocked(nextport[s], protocol)
         IN  IF e.err # "nil"
             THEN ApiFails(op, e.err)
             ELSE /\ nextport' = [nextport EXCEPT ![s] = e.nextport]
                  /\ newPortLocked(s, op, protocol,
                                   AddrPortFrom(dialLocalAddr(s, raddr), e.port), raddr)

\* Stack.dialContext for "udp", and for a network that is neither "udp" nor "tcp".
DialUDP(s, network, address) ==
    /\ ~panicked
    /\ network # "tcp"
    /\ IF network # "udp"
       THEN ApiFails("dial", "EPROTONOSUPPORT")
       ELSE dial(s, "dial", IPProtocolUDP, address)
    /\ OpenUnchanged

\* Stack.dialContext for "tcp", up to the port: Connect follows.
DialTCPPort(s, address) ==
    /\ ~panicked
    /\ dial(s, "dialtcp", IPProtocolTCP, address)
    /\ OpenUnchanged

(***************************************************************************)
(* Stack.NewTCPConn: the child port of a listener.                         *)
(***************************************************************************)
NewTCPConn(s, laddr, raddr) ==
    /\ ~panicked
    /\ newPortLocked(s, "NewTCPConn", IPProtocolTCP, laddr, raddr)
    /\ UNCHANGED nextport
    /\ OpenUnchanged


(***************************************************************************)
(* deadline.Set, with the timer callback taken as one step: the time is    *)
(* the zero time, a time in the future or a time in the past.              *)
(***************************************************************************)
\* A variant of deadlineSet that leaves a closed channel closed at the zero time.
deadlineSetKeepsClosed(d, t) ==
    IF t = "zero"
    THEN [closed |-> d.closed, timer |-> "nil"]
    ELSE IF t = "future"
    THEN [closed |-> FALSE, timer |-> "pending"]
    ELSE [closed |-> TRUE, timer |-> "nil"]

deadlineSet(d, t) ==
    LET closed == d.closed
    IN  IF t = "zero"
        THEN [closed |-> IF closed THEN FALSE ELSE d.closed, timer |-> "nil"]
        ELSE IF t = "future"
        THEN [closed |-> IF closed THEN FALSE ELSE d.closed, timer |-> "pending"]
        ELSE [closed |-> TRUE, timer |-> "nil"]

deadlineFire(d) == [closed |-> TRUE, timer |-> "fired"]

(***************************************************************************)
(* What the close of a channel does to the goroutines parked on it.        *)
(***************************************************************************)
ErrResult(err) == [err |-> err, pkt |-> NoPacket]

\* close(up.eof) that leaves the demux parked on the input of the port.
WakePortEofLeavesDemux(p) ==
    /\ rdPc' = [rdPc EXCEPT ![p] = IF @ = "parked" THEN "done" ELSE @]
    /\ rdRes' = [rdRes EXCEPT ![p] = IF rdPc[p] = "parked" THEN ErrResult("ErrClosed") ELSE @]
    /\ wrPc' = [wrPc EXCEPT ![p] = IF @ = "parked" THEN "done" ELSE @]
    /\ wrRes' = [wrRes EXCEPT ![p] = IF wrPc[p] = "parked" THEN "ErrClosed" ELSE @]
    /\ muxPc' = [muxPc EXCEPT ![p] = IF @ = "parked" THEN "exit" ELSE @]
    /\ UNCHANGED <<demuxPc, demuxPkt, demuxPort>>

\* close(up.eof) of port p.
WakePortEof(p) ==
    /\ rdPc' = [rdPc EXCEPT ![p] = IF @ = "parked" THEN "done" ELSE @]
    /\ rdRes' = [rdRes EXCEPT ![p] = IF rdPc[p] = "parked" THEN ErrResult("ErrClosed") ELSE @]
    /\ wrPc' = [wrPc EXCEPT ![p] = IF @ = "parked" THEN "done" ELSE @]
    /\ wrRes' = [wrRes EXCEPT ![p] = IF wrPc[p] = "parked" THEN "ErrClosed" ELSE @]
    /\ muxPc' = [muxPc EXCEPT ![p] = IF @ = "parked" THEN "exit" ELSE @]
    /\ demuxPc' = [s \in Stacks |->
                     IF demuxPc[s] = "parked" /\ demuxPort[s] = p THEN "loop" ELSE demuxPc[s]]
    /\ demuxPkt' = [s \in Stacks |->
                     IF demuxPc[s] = "parked" /\ demuxPort[s] = p THEN NoPacket ELSE demuxPkt[s]]
    /\ demuxPort' = [s \in Stacks |->
                     IF demuxPc[s] = "parked" /\ demuxPort[s] = p THEN NoPort ELSE demuxPort[s]]

(***************************************************************************)
(* Port.Close: eofOnce.Do(ClosePort; close(eof); rd.Set(zero);             *)
(* wd.Set(zero)); return nil.  A caller that finds the Once running waits  *)
(* for it; a caller that finds it done returns at once.                    *)
(***************************************************************************)
OnceEnter(once) == IF once = "new" THEN "running" ELSE once
OnceCallerPc(once) ==
    IF once = "new" THEN "closePort" ELSE IF once = "running" THEN "wait" ELSE "done"

\* A Once that runs its function on every call.
PortCloseBeginNoOnce(p, k) ==
    /\ ~panicked
    /\ Allocated(p)
    /\ closePc[p][k] = "idle"
    /\ portOnce' = [portOnce EXCEPT ![p] = "running"]
    /\ closePc' = [closePc EXCEPT ![p][k] = "closePort"]
    /\ UNCHANGED <<stackVars, nextId, portAddr, portStack, portEof, rd, wd, muxPc, muxPkt,
                   rdPc, rdRes, wrPc, wrPkt, wrRes, stackClosePc, upperVars, histVars>>

PortCloseBegin(p, k) ==
    /\ ~panicked
    /\ Allocated(p)
    /\ closePc[p][k] = "idle"
    /\ portOnce' = [portOnce EXCEPT ![p] = OnceEnter(@)]
    /\ closePc' = [closePc EXCEPT ![p][k] = OnceCallerPc(portOnce[p])]
    /\ UNCHANGED <<stackVars, nextId, portAddr, portStack, portEof, rd, wd, muxPc, muxPkt,
                   rdPc, rdRes, wrPc, wrPkt, wrRes, stackClosePc, upperVars, histVars>>

\* Stack.ClosePort: delete(ns.ports, *addr) under the lock.
ClosePort(s, addr) ==
    ports' = [ports EXCEPT ![s] = [a \in DOMAIN ports[s] \ {addr} |-> ports[s][a]]]

PortCloseClosePort(p, k) ==
    /\ ~panicked
    /\ closePc[p][k] = "closePort"
    /\ ClosePort(portStack[p], portAddr[p])
    /\ closePortCalls' = [closePortCalls EXCEPT ![p] = @ + 1]
    /\ closePc' = [closePc EXCEPT ![p][k] = "closeEof"]
    /\ UNCHANGED <<nextport, stackEof, stackOnce, stackIn, stackOut, demuxPc, demuxPkt,
                   demuxPort, panicked, portVars, rdPc, rdRes, wrPc, wrPkt, wrRes,
                   stackClosePc, upperVars, apiRes, rdAfterClose, wrAfterClose, lastDemux,
                   lastFind>>

PortCloseCloseEof(p, k) ==
    /\ ~panicked
    /\ closePc[p][k] = "closeEof"
    /\ portEof' = [portEof EXCEPT ![p] = @ + 1]
    /\ WakePortEof(p)
    /\ closePc' = [closePc EXCEPT ![p][k] = "deadlines"]
    /\ UNCHANGED <<ports, nextport, stackEof, stackOnce, stackIn, stackOut, panicked,
                   nextId, portAddr, portStack, portOnce, rd, wd,
                   muxPkt, wrPkt, stackClosePc, upperVars, histVars>>

PortCloseDeadlines(p, k) ==
    /\ ~panicked
    /\ closePc[p][k] = "deadlines"
    /\ rd' = [rd EXCEPT ![p] = deadlineSet(@, "zero")]
    /\ wd' = [wd EXCEPT ![p] = deadlineSet(@, "zero")]
    /\ portOnce' = [portOnce EXCEPT ![p] = "done"]
    /\ closePc' = [closePc EXCEPT ![p][k] = "done"]
    /\ lastSet' = [lastSet EXCEPT ![p] = [rd |-> "zero", wd |-> "zero"]]
    /\ UNCHANGED <<stackVars, nextId, portAddr, portStack, portEof, muxPc, muxPkt,
                   rdPc, rdRes, wrPc, wrPkt, wrRes, stackClosePc, linkVars, lastPut,
                   lastGot, libVars, routerVars, tcpVars, obsVars, histVars>>

PortCloseWaited(p, k) ==
    /\ ~panicked
    /\ closePc[p][k] = "wait"
    /\ portOnce[p] = "done"
    /\ closePc' = [closePc EXCEPT ![p][k] = "done"]
    /\ UNCHANGED <<stackVars, portVars, rdPc, rdRes, wrPc, wrPkt, wrRes, stackClosePc,
                   upperVars, histVars>>

(***************************************************************************)
(* Stack.Close: eofOnce.Do(close(ns.eof)); return nil.                     *)
(***************************************************************************)
WakeStackEof(s) ==
    /\ demuxPc' = [demuxPc EXCEPT ![s] = IF @ = "parked" THEN "loop" ELSE @]
    /\ demuxPkt' = [demuxPkt EXCEPT ![s] = IF demuxPc[s] = "parked" THEN NoPacket ELSE @]
    /\ demuxPort' = [demuxPort EXCEPT ![s] = IF demuxPc[s] = "parked" THEN NoPort ELSE @]
    /\ muxPc' = [p \in PortIds |->
                    IF portStack[p] = s /\ muxPc[p] = "parked" THEN "exit" ELSE muxPc[p]]

StackCloseBegin(s, k) ==
    /\ ~panicked
    /\ stackClosePc[s][k] = "idle"
    /\ stackOnce' = [stackOnce EXCEPT ![s] = OnceEnter(@)]
    /\ stackClosePc' = [stackClosePc EXCEPT ![s][k] =
                           IF stackOnce[s] = "new" THEN "closeEof"
                           ELSE IF stackOnce[s] = "running" THEN "wait" ELSE "done"]
    /\ UNCHANGED <<ports, nextport, stackEof, stackIn, stackOut, demuxPc, demuxPkt,
                   demuxPort, panicked, portVars, rdPc, rdRes, wrPc, wrPkt, wrRes,
                   closePc, upperVars, histVars>>

StackCloseCloseEof(s, k) ==
    /\ ~panicked
    /\ stackClosePc[s][k] = "closeEof"
    /\ stackEof' = [stackEof EXCEPT ![s] = @ + 1]
    /\ WakeStackEof(s)
    /\ stackOnce' = [stackOnce EXCEPT ![s] = "done"]
    /\ stackClosePc' = [stackClosePc EXCEPT ![s][k] = "done"]
    /\ UNCHANGED <<ports, nextport, stackIn, stackOut, panicked,
                   nextId, portAddr, portStack, portEof, portOnce, rd, wd, muxPkt,
                   rdPc, rdRes, wrPc, wrPkt, wrRes, closePc, upperVars, histVars>>

StackCloseWaited(s, k) ==
    /\ ~panicked
    /\ stackClosePc[s][k] = "wait"
    /\ stackOnce[s] = "done"
    /\ stackClosePc' = [stackClosePc EXCEPT ![s][k] = "done"]
    /\ UNCHANGED <<stackVars, portVars, rdPc, rdRes, wrPc, wrPkt, wrRes, closePc, upperVars, histVars>>


(***************************************************************************)
(* Link.Close: eofOnce.Do(close(lnk.eof)); return nil.                     *)
(***************************************************************************)
LinkCloseBegin(k) ==
    /\ ~panicked
    /\ linkClosePc[k] = "idle"
    /\ linkOnce' = OnceEnter(linkOnce)
    /\ linkClosePc' = [linkClosePc EXCEPT ![k] =
                          IF linkOnce = "new" THEN "closeEof"
                          ELSE IF linkOnce = "running" THEN "wait" ELSE "done"]
    /\ UNCHANGED <<stackVars, portVars, callVars, linkEof, histVars, routerVars, tcpVars, obsVars, userVars>>

LinkCloseCloseEof(k) ==
    /\ ~panicked
    /\ linkClosePc[k] = "closeEof"
    /\ linkEof' = linkEof + 1
    /\ linkOnce' = "done"
    /\ linkClosePc' = [linkClosePc EXCEPT ![k] = "done"]
    /\ UNCHANGED <<stackVars, portVars, callVars, histVars, routerVars, tcpVars, obsVars,
                   userVars>>

LinkCloseWaited(k) ==
    /\ ~panicked
    /\ linkClosePc[k] = "wait"
    /\ linkOnce = "done"
    /\ linkClosePc' = [linkClosePc EXCEPT ![k] = "done"]
    /\ UNCHANGED <<stackVars, portVars, callVars, linkEof, linkOnce, histVars, routerVars, tcpVars,
                   obsVars, userVars>>

(***************************************************************************)
(* Port.ReadPacket.  The call is a loop around one select over the input   *)
(* of the port, its EOF signal and its read deadline.  The input is an     *)
(* unbuffered channel, whose only sender is the demux of the stack.        *)
(***************************************************************************)
\* The test of ReadPacket on a received packet: the IP address of the source only.
Matches(p, pkt) == ~IsValid(portAddr[p].RemoteAddr) \/ pkt.SrcAddr = portAddr[p].RemoteAddr.ip

DemuxOutcome(pkt, port, outcome, room, emitted) ==
    [pkt |-> pkt, port |-> port, outcome |-> outcome, room |-> room, emitted |-> emitted]

\* The call begins, made by who: the user of the port, or a call of a TCPConn
\* or of a TCPListener.
ReadPacketCall(p, who) ==
    /\ rdPc[p] = "idle"
    /\ rdPc' = [rdPc EXCEPT ![p] = "select"]
    /\ rdRes' = [rdRes EXCEPT ![p] = NoResult]
    /\ rdCaller' = [rdCaller EXCEPT ![p] = who]
    /\ rdAfterClose' = [rdAfterClose EXCEPT ![p] = \E k \in Closers : closePc[p][k] = "done"]

ReadPacketBegin(p) ==
    /\ ~panicked
    /\ Allocated(p)
    /\ ReadPacketCall(p, "user")
    /\ UNCHANGED <<stackVars, portVars, wrPc, wrPkt, wrRes, closePc, stackClosePc, linkVars, userVars, routerVars,
                   apiRes, closePortCalls, wrAfterClose, lastDemux, lastFind,
                   tcpPkg, connPc, connErr, connCtx, connBuf, readPc, readLen, readRes,
                   acceptPc, acceptPkt, acceptConn, acceptRes, tcpClosePc, wrCaller, obsVars>>

\* The user takes the result of the call.
ReadPacketReturn(p) ==
    /\ ~panicked
    /\ rdPc[p] = "done" /\ rdCaller[p] = "user"
    /\ rdPc' = [rdPc EXCEPT ![p] = "idle"]
    /\ lastGot' = [lastGot EXCEPT ![p] = IF rdRes[p].err = "nil" THEN rdRes[p].pkt.Payload ELSE @]
    /\ UNCHANGED <<stackVars, portVars, rdRes, wrPc, wrPkt, wrRes, closePc, stackClosePc,
                   linkVars, lastPut, lastSet, libVars, routerVars, tcpVars, obsVars, histVars>>

\* The reader of p receives pkt: it returns it when it matches and selects again
\* when it does not.
ReaderTakes(p, pkt) ==
    /\ rdPc' = [rdPc EXCEPT ![p] = IF Matches(p, pkt) THEN "done" ELSE "select"]
    /\ rdRes' = [rdRes EXCEPT ![p] = IF Matches(p, pkt) THEN [err |-> "nil", pkt |-> pkt] ELSE @]

\* case pkt := <-gp.input, ready when the demux is parked on its send to this port.
ReadPacketRecv(p) ==
    /\ ~panicked
    /\ rdPc[p] = "select"
    /\ \E s \in Stacks :
          /\ demuxPc[s] = "parked" /\ demuxPort[s] = p
          /\ ReaderTakes(p, demuxPkt[s])
          /\ demuxPc' = [demuxPc EXCEPT ![s] = "loop"]
          /\ demuxPkt' = [demuxPkt EXCEPT ![s] = NoPacket]
          /\ demuxPort' = [demuxPort EXCEPT ![s] = NoPort]
          /\ lastDemux' = DemuxOutcome(demuxPkt[s], p, "nil", FALSE, << >>)
    /\ UNCHANGED <<ports, nextport, stackEof, stackOnce, stackIn, stackOut, panicked,
                   portVars, wrPc, wrPkt, wrRes, closePc, stackClosePc, linkVars, userVars, routerVars, tcpVars,
                   apiRes, closePortCalls, rdAfterClose, wrAfterClose, lastFind,
                   lateDeadline, synSent, connFirst, arrived, returned>>

\* The holder of the channel Port.Input returns sends pkt on it: the send is
\* taken when the reader is parked on the input of the port.
PortInputSend(p, pkt) ==
    /\ ~panicked
    /\ Allocated(p)
    /\ rdPc[p] = "parked"
    /\ ReaderTakes(p, pkt)
    /\ UNCHANGED <<stackVars, portVars, wrPc, wrPkt, wrRes, closePc, stackClosePc,
                   upperVars, histVars>>

\* case <-gp.eof.
ReadPacketEof(p) ==
    /\ ~panicked
    /\ rdPc[p] = "select"
    /\ portEof[p] > 0
    /\ rdPc' = [rdPc EXCEPT ![p] = "done"]
    /\ rdRes' = [rdRes EXCEPT ![p] = ErrResult("ErrClosed")]
    /\ UNCHANGED <<stackVars, portVars, wrPc, wrPkt, wrRes, closePc, stackClosePc,
                   upperVars, histVars>>

\* case <-gp.rd.Wait().
ReadPacketDeadline(p) ==
    /\ ~panicked
    /\ rdPc[p] = "select"
    /\ rd[p].closed
    /\ rdPc' = [rdPc EXCEPT ![p] = "done"]
    /\ rdRes' = [rdRes EXCEPT ![p] = ErrResult("ErrDeadlineExceeded")]
    /\ UNCHANGED <<stackVars, portVars, wrPc, wrPkt, wrRes, closePc, stackClosePc,
                   upperVars, histVars>>

\* No case is ready: the goroutine parks on the three channels.
ReadPacketPark(p) ==
    /\ ~panicked
    /\ rdPc[p] = "select"
    /\ portEof[p] = 0 /\ ~rd[p].closed
    /\ ~\E s \in Stacks : demuxPc[s] = "parked" /\ demuxPort[s] = p
    /\ rdPc' = [rdPc EXCEPT ![p] = "parked"]
    /\ UNCHANGED <<stackVars, portVars, rdRes, wrPc, wrPkt, wrRes, closePc, stackClosePc,
                   upperVars, histVars>>

(***************************************************************************)
(* Stack.demuxLoop and Stack.demux.                                        *)
(***************************************************************************)
\* Stack.resetNonblocking on the output out: the two assertions, then the RST
\* and its non-blocking send.  runtimex.Assert panics when its condition is false.
resetNonblocking(pkt, out) ==
    IF ~(pkt.IPProtocol = IPProtocolTCP) THEN [panic |-> TRUE, out |-> out, emitted |-> << >>]
    ELSE IF ~(pkt.Flags # TCPFlagSYN) THEN [panic |-> TRUE, out |-> out, emitted |-> << >>]
    ELSE LET resp == [TTL |-> 0, SrcAddr |-> pkt.DstAddr, DstAddr |-> pkt.SrcAddr,
                      IPProtocol |-> IPProtocolTCP, SrcPort |-> pkt.DstPort,
                      DstPort |-> pkt.SrcPort, Flags |-> TCPFlagRST, Payload |-> << >>]
         IN  IF Len(out) < ChanCap
             THEN [panic |-> FALSE, out |-> Append(out, resp), emitted |-> <<resp>>]
             ELSE [panic |-> FALSE, out |-> out, emitted |-> << >>]

\* case pkt := <-ns.input, and demux(pkt) up to the select that delivers.
DemuxRecv(s) ==
    /\ ~panicked
    /\ demuxPc[s] = "loop"
    /\ stackIn[s] # << >>
    /\ stackIn' = [stackIn EXCEPT ![s] = Tail(@)]
    /\ LET pkt == Head(stackIn[s])
           port == findPortLocked(ports[s], pkt)
           room == Len(stackOut[s]) < ChanCap
           rst == resetNonblocking(pkt, stackOut[s])
       IN  IF pkt.TTL <= 0 \/ ~isLocalAddr(s, pkt.DstAddr)
           THEN /\ lastDemux' = DemuxOutcome(pkt, NoPort, "EHOSTUNREACH", room, << >>)
                /\ UNCHANGED <<stackOut, demuxPc, demuxPkt, demuxPort, panicked>>
           ELSE IF port = NoPort
           THEN IF pkt.IPProtocol = IPProtocolTCP /\ pkt.Flags = TCPFlagSYN
                THEN /\ panicked' = rst.panic
                     /\ stackOut' = [stackOut EXCEPT ![s] = rst.out]
                     /\ lastDemux' = DemuxOutcome(pkt, NoPort,
                                        IF rst.panic THEN "panic" ELSE "ECONNREFUSED",
                                        room, rst.emitted)
                     /\ UNCHANGED <<demuxPc, demuxPkt, demuxPort>>
                ELSE /\ lastDemux' = DemuxOutcome(pkt, NoPort, "ECONNREFUSED", room, << >>)
                     /\ UNCHANGED <<stackOut, demuxPc, demuxPkt, demuxPort, panicked>>
           ELSE /\ demuxPc' = [demuxPc EXCEPT ![s] = "deliver"]
                /\ demuxPkt' = [demuxPkt EXCEPT ![s] = pkt]
                /\ demuxPort' = [demuxPort EXCEPT ![s] = port]
                /\ UNCHANGED <<stackOut, panicked, lastDemux>>
    /\ UNCHANGED <<ports, nextport, stackEof, stackOnce, portVars, callVars, upperVars,
                   apiRes, closePortCalls, rdAfterClose, wrAfterClose, lastFind>>

\* case <-ns.eof of demuxLoop.
DemuxExit(s) ==
    /\ ~panicked
    /\ demuxPc[s] = "loop"
    /\ stackEof[s] > 0
    /\ demuxPc' = [demuxPc EXCEPT ![s] = "exit"]
    /\ UNCHANGED <<ports, nextport, stackEof, stackOnce, stackIn, stackOut, demuxPkt,
                   demuxPort, panicked, portVars, callVars, upperVars, histVars>>

\* demux leaves its select without delivering, with the error err.
DemuxGivesUp(s, err) ==
    /\ demuxPc' = [demuxPc EXCEPT ![s] = "loop"]
    /\ demuxPkt' = [demuxPkt EXCEPT ![s] = NoPacket]
    /\ demuxPort' = [demuxPort EXCEPT ![s] = NoPort]
    /\ lastDemux' = DemuxOutcome(demuxPkt[s], demuxPort[s], err, FALSE, << >>)
    /\ UNCHANGED <<ports, nextport, stackEof, stackOnce, stackIn, stackOut, panicked,
                   portVars, callVars, upperVars, apiRes, closePortCalls, rdAfterClose,
                   wrAfterClose, lastFind>>

\* case <-port.eof of demux.
DemuxDeliverPortEof(s) ==
    /\ ~panicked
    /\ demuxPc[s] = "deliver"
    /\ portEof[demuxPort[s]] > 0
    /\ DemuxGivesUp(s, "ErrClosed")

\* case <-ns.eof of demux.
DemuxDeliverStackEof(s) ==
    /\ ~panicked
    /\ demuxPc[s] = "deliver"
    /\ stackEof[s] > 0
    /\ DemuxGivesUp(s, "ENETDOWN")

\* case port.input <- pkt, ready when a reader is parked on the input of the port.
DemuxDeliverSend(s) ==
    /\ ~panicked
    /\ demuxPc[s] = "deliver"
    /\ rdPc[demuxPort[s]] = "parked"
    /\ ReaderTakes(demuxPort[s], demuxPkt[s])
    /\ demuxPc' = [demuxPc EXCEPT ![s] = "loop"]
    /\ demuxPkt' = [demuxPkt EXCEPT ![s] = NoPacket]
    /\ demuxPort' = [demuxPort EXCEPT ![s] = NoPort]
    /\ lastDemux' = DemuxOutcome(demuxPkt[s], demuxPort[s], "nil", FALSE, << >>)
    /\ UNCHANGED <<ports, nextport, stackEof, stackOnce, stackIn, stackOut, panicked,
                   portVars, wrPc, wrPkt, wrRes, closePc, stackClosePc, linkVars, userVars, routerVars, tcpVars,
                   apiRes, closePortCalls, rdAfterClose, wrAfterClose, lastFind,
                   lateDeadline, synSent, connFirst, arrived, returned>>

\* No case is ready: demux parks on the three channels.
DemuxDeliverPark(s) ==
    /\ ~panicked
    /\ demuxPc[s] = "deliver"
    /\ portEof[demuxPort[s]] = 0 /\ stackEof[s] = 0
    /\ rdPc[demuxPort[s]] # "parked"
    /\ demuxPc' = [demuxPc EXCEPT ![s] = "parked"]
    /\ UNCHANGED <<ports, nextport, stackEof, stackOnce, stackIn, stackOut, demuxPkt,
                   demuxPort, panicked, portVars, callVars, upperVars, histVars>>

(***************************************************************************)
(* Port.WritePacket: the destination, the packet, then one select over the *)
(* output of the port, its EOF signal and its write deadline.  The output  *)
(* is an unbuffered channel, whose only receiver is muxOutgoingTraffic.    *)
(***************************************************************************)
WritePacketCall(p, who, payload, flags, raddr) ==
    LET dst == IF IsValid(raddr) THEN raddr ELSE portAddr[p].RemoteAddr
    IN  /\ wrPc[p] = "idle"
        /\ wrCaller' = [wrCaller EXCEPT ![p] = who]
        /\ wrAfterClose' = [wrAfterClose EXCEPT ![p] = \E k \in Closers : closePc[p][k] = "done"]
        /\ IF ~IsValid(dst)
           THEN /\ wrPc' = [wrPc EXCEPT ![p] = "done"]
                /\ wrRes' = [wrRes EXCEPT ![p] = "ENOTCONN"]
                /\ wrPkt' = [wrPkt EXCEPT ![p] = NoPacket]
           ELSE /\ wrPc' = [wrPc EXCEPT ![p] = "select"]
                /\ wrRes' = [wrRes EXCEPT ![p] = "none"]
                /\ wrPkt' = [wrPkt EXCEPT ![p] =
                                NewPacket(linuxDefaultTTL, portAddr[p].LocalAddr, dst,
                                          portAddr[p].Protocol, flags, payload)]

WritePacketBegin(p, payload, flags, raddr) ==
    /\ ~panicked
    /\ Allocated(p)
    /\ WritePacketCall(p, "user", payload, flags, raddr)
    /\ lastPut' = [lastPut EXCEPT ![p] = payload]
    /\ UNCHANGED <<stackVars, portVars, rdPc, rdRes, closePc, stackClosePc, linkVars, lastGot, lastSet, libVars, routerVars,
                   apiRes, closePortCalls, rdAfterClose, lastDemux, lastFind,
                   tcpPkg, connPc, connErr, connCtx, connBuf, readPc, readLen, readRes,
                   acceptPc, acceptPkt, acceptConn, acceptRes, tcpClosePc, rdCaller, obsVars>>

\* The user takes the result of the call.
WritePacketReturn(p) ==
    /\ ~panicked
    /\ wrPc[p] = "done" /\ wrCaller[p] = "user"
    /\ wrPc' = [wrPc EXCEPT ![p] = "idle"]
    /\ UNCHANGED <<stackVars, portVars, rdPc, rdRes, wrPkt, wrRes, closePc, stackClosePc,
                   upperVars, histVars>>

\* case gp.output <- pkt, ready when muxOutgoingTraffic is parked on its receive.
WritePacketSend(p) ==
    /\ ~panicked
    /\ wrPc[p] = "select"
    /\ muxPc[p] = "parked"
    /\ wrPc' = [wrPc EXCEPT ![p] = "done"]
    /\ wrRes' = [wrRes EXCEPT ![p] = "nil"]
    /\ muxPc' = [muxPc EXCEPT ![p] = "forward"]
    /\ muxPkt' = [muxPkt EXCEPT ![p] = wrPkt[p]]
    /\ UNCHANGED <<stackVars, nextId, portAddr, portStack, portEof, portOnce, rd, wd,
                   rdPc, rdRes, wrPkt, closePc, stackClosePc, upperVars, histVars>>

\* case <-gp.eof.
WritePacketEof(p) ==
    /\ ~panicked
    /\ wrPc[p] = "select"
    /\ portEof[p] > 0
    /\ wrPc' = [wrPc EXCEPT ![p] = "done"]
    /\ wrRes' = [wrRes EXCEPT ![p] = "ErrClosed"]
    /\ UNCHANGED <<stackVars, portVars, rdPc, rdRes, wrPkt, closePc, stackClosePc,
                   upperVars, histVars>>

\* case <-gp.wd.Wait().
WritePacketDeadline(p) ==
    /\ ~panicked
    /\ wrPc[p] = "select"
    /\ wd[p].closed
    /\ wrPc' = [wrPc EXCEPT ![p] = "done"]
    /\ wrRes' = [wrRes EXCEPT ![p] = "ErrDeadlineExceeded"]
    /\ UNCHANGED <<stackVars, portVars, rdPc, rdRes, wrPkt, closePc, stackClosePc,
                   upperVars, histVars>>

\* No case is ready: the goroutine parks on the three channels.
WritePacketPark(p) ==
    /\ ~panicked
    /\ wrPc[p] = "select"
    /\ portEof[p] = 0 /\ ~wd[p].closed /\ muxPc[p] # "parked"
    /\ wrPc' = [wrPc EXCEPT ![p] = "parked"]
    /\ UNCHANGED <<stackVars, portVars, rdPc, rdRes, wrPkt, wrRes, closePc, stackClosePc,
                   upperVars, histVars>>

(***************************************************************************)
(* Stack.muxOutgoingTraffic(port): a select over the EOF signal of the     *)
(* port, that of the stack and the output of the port, then a blocking     *)
(* send to the buffered output of the stack.                               *)
(***************************************************************************)
\* case pkt := <-port.output, ready when a writer is parked on the output.
MuxRecv(p) ==
    /\ ~panicked
    /\ muxPc[p] = "select"
    /\ wrPc[p] = "parked"
    /\ wrPc' = [wrPc EXCEPT ![p] = "done"]
    /\ wrRes' = [wrRes EXCEPT ![p] = "nil"]
    /\ muxPc' = [muxPc EXCEPT ![p] = "forward"]
    /\ muxPkt' = [muxPkt EXCEPT ![p] = wrPkt[p]]
    /\ UNCHANGED <<stackVars, nextId, portAddr, portStack, portEof, portOnce, rd, wd,
                   rdPc, rdRes, wrPkt, closePc, stackClosePc, upperVars, histVars>>

\* case <-port.eof.
MuxPortEof(p) ==
    /\ ~panicked
    /\ muxPc[p] = "select"
    /\ portEof[p] > 0
    /\ muxPc' = [muxPc EXCEPT ![p] = "exit"]
    /\ UNCHANGED <<stackVars, nextId, portAddr, portStack, portEof, portOnce, rd, wd,
                   muxPkt, callVars, upperVars, histVars>>

\* case <-ns.eof.
MuxStackEof(p) ==
    /\ ~panicked
    /\ muxPc[p] = "select"
    /\ stackEof[portStack[p]] > 0
    /\ muxPc' = [muxPc EXCEPT ![p] = "exit"]
    /\ UNCHANGED <<stackVars, nextId, portAddr, portStack, portEof, portOnce, rd, wd,
                   muxPkt, callVars, upperVars, histVars>>

\* No case is ready: the goroutine parks.
MuxPark(p) ==
    /\ ~panicked
    /\ muxPc[p] = "select"
    /\ portEof[p] = 0 /\ stackEof[portStack[p]] = 0 /\ wrPc[p] # "parked"
    /\ muxPc' = [muxPc EXCEPT ![p] = "parked"]
    /\ UNCHANGED <<stackVars, nextId, portAddr, portStack, portEof, portOnce, rd, wd,
                   muxPkt, callVars, upperVars, histVars>>

\* A variant of MuxForward that puts the packet at the head of the output.
MuxForwardAtHead(p) ==
    /\ ~panicked
    /\ muxPc[p] = "forward"
    /\ Len(stackOut[portStack[p]]) < ChanCap
    /\ stackOut' = [stackOut EXCEPT ![portStack[p]] = <<muxPkt[p]>> \o @]
    /\ muxPc' = [muxPc EXCEPT ![p] = "select"]
    /\ muxPkt' = [muxPkt EXCEPT ![p] = NoPacket]
    /\ UNCHANGED <<ports, nextport, stackEof, stackOnce, stackIn, demuxPc, demuxPkt,
                   demuxPort, panicked, nextId, portAddr, portStack, portEof, portOnce,
                   rd, wd, callVars, upperVars, histVars>>

\* ns.output <- pkt: it blocks while the output of the stack is full.
MuxForward(p) ==
    /\ ~panicked
    /\ muxPc[p] = "forward"
    /\ Len(stackOut[portStack[p]]) < ChanCap
    /\ stackOut' = [stackOut EXCEPT ![portStack[p]] = Append(@, muxPkt[p])]
    /\ muxPc' = [muxPc EXCEPT ![p] = "select"]
    /\ muxPkt' = [muxPkt EXCEPT ![p] = NoPacket]
    /\ UNCHANGED <<ports, nextport, stackEof, stackOnce, stackIn, demuxPc, demuxPkt,
                   demuxPort, panicked, nextId, portAddr, portStack, portEof, portOnce,
                   rd, wd, callVars, upperVars, histVars>>

(***************************************************************************)
(* Port.SetReadDeadline and Port.SetWriteDeadline, and the timers.  The    *)
(* close of the channel of a deadline wakes the goroutine parked on it.    *)
(***************************************************************************)
\* The read deadline of p becomes d.
ReadDeadlineBecomes(p, d) ==
    /\ rd' = [rd EXCEPT ![p] = d]
    /\ rdPc' = [rdPc EXCEPT ![p] = IF @ = "parked" /\ d.closed THEN "done" ELSE @]
    /\ rdRes' = [rdRes EXCEPT ![p] =
                    IF rdPc[p] = "parked" /\ d.closed THEN ErrResult("ErrDeadlineExceeded") ELSE @]

\* The write deadline of p becomes d.
WriteDeadlineBecomes(p, d) ==
    /\ wd' = [wd EXCEPT ![p] = d]
    /\ wrPc' = [wrPc EXCEPT ![p] = IF @ = "parked" /\ d.closed THEN "done" ELSE @]
    /\ wrRes' = [wrRes EXCEPT ![p] =
                    IF wrPc[p] = "parked" /\ d.closed THEN "ErrDeadlineExceeded" ELSE @]

\* A deadline of p expired (which: "rd" or "wd") when d is closed: remembered
\* when Close has begun on p.
Expired(p, which, d) ==
    lateDeadline' = [lateDeadline EXCEPT ![p] =
                        IF d.closed /\ portOnce[p] # "new" THEN @ \cup {which} ELSE @]

DeadlineTimes == {"zero", "future", "past"}

SetReadDeadline(p, t) ==
    /\ ~panicked
    /\ Allocated(p)
    /\ ReadDeadlineBecomes(p, deadlineSet(rd[p], t))
    /\ Expired(p, "rd", deadlineSet(rd[p], t))
    /\ lastSet' = [lastSet EXCEPT ![p].rd = t]
    /\ UNCHANGED <<stackVars, nextId, portAddr, portStack, portEof, portOnce, wd, muxPc,
                   muxPkt, wrPc, wrPkt, wrRes, closePc, stackClosePc, linkVars, lastPut,
                   lastGot, libVars, routerVars, tcpVars,
                   histVars, synSent, connFirst, arrived, returned>>

SetWriteDeadline(p, t) ==
    /\ ~panicked
    /\ Allocated(p)
    /\ WriteDeadlineBecomes(p, deadlineSet(wd[p], t))
    /\ Expired(p, "wd", deadlineSet(wd[p], t))
    /\ lastSet' = [lastSet EXCEPT ![p].wd = t]
    /\ UNCHANGED <<stackVars, nextId, portAddr, portStack, portEof, portOnce, rd, muxPc,
                   muxPkt, rdPc, rdRes, wrPkt, closePc, stackClosePc, linkVars, lastPut,
                   lastGot, libVars, routerVars, tcpVars,
                   histVars, synSent, connFirst, arrived, returned>>

\* Port.SetDeadline: SetReadDeadline(t), then SetWriteDeadline(t).
SetDeadlineCall(p, t) ==
    /\ ReadDeadlineBecomes(p, deadlineSet(rd[p], t))
    /\ WriteDeadlineBecomes(p, deadlineSet(wd[p], t))
    /\ lastSet' = [lastSet EXCEPT ![p] = [rd |-> t, wd |-> t]]
    /\ lateDeadline' = [lateDeadline EXCEPT ![p] =
                           IF deadlineSet(rd[p], t).closed /\ portOnce[p] # "new"
                           THEN @ \cup {"rd", "wd"} ELSE @]

SetDeadline(p, t) ==
    /\ ~panicked
    /\ Allocated(p)
    /\ SetDeadlineCall(p, t)
    /\ UNCHANGED <<stackVars, nextId, portAddr, portStack, portEof, portOnce, muxPc,
                   muxPkt, wrPkt, closePc, stackClosePc, linkVars, lastPut, lastGot, libVars,
                   routerVars, tcpVars,
                   histVars, synSent, connFirst, arrived, returned>>

\* The timer of the read deadline fires: close(d.cancel).
ReadDeadlineFire(p) ==
    /\ ~panicked
    /\ rd[p].timer = "pending"
    /\ ReadDeadlineBecomes(p, deadlineFire(rd[p]))
    /\ Expired(p, "rd", deadlineFire(rd[p]))
    /\ UNCHANGED <<stackVars, nextId, portAddr, portStack, portEof, portOnce, wd, muxPc,
                   muxPkt, wrPc, wrPkt, wrRes, closePc, stackClosePc, linkVars, userVars, routerVars, tcpVars,
                   histVars, synSent, connFirst, arrived, returned>>

\* The timer of the write deadline fires.
WriteDeadlineFire(p) ==
    /\ ~panicked
    /\ wd[p].timer = "pending"
    /\ WriteDeadlineBecomes(p, deadlineFire(wd[p]))
    /\ Expired(p, "wd", deadlineFire(wd[p]))
    /\ UNCHANGED <<stackVars, nextId, portAddr, portStack, portEof, portOnce, rd, muxPc,
                   muxPkt, rdPc, rdRes, wrPkt, closePc, stackClosePc, linkVars, userVars, routerVars, tcpVars,
                   histVars, synSent, connFirst, arrived, returned>>

(***************************************************************************)
(* The device side of a stack: what is attached to it sends packets to its *)
(* buffered input (without blocking) and receives from its output.         *)
(***************************************************************************)
\* A non-blocking send of pkt to the input of s: dropped when the input is full.
DeviceSend(s, pkt) ==
    /\ ~panicked
    /\ IF Len(stackIn[s]) < ChanCap
       THEN stackIn' = [stackIn EXCEPT ![s] = Append(@, pkt)]
       ELSE UNCHANGED stackIn
    /\ UNCHANGED <<ports, nextport, stackEof, stackOnce, stackOut, demuxPc, demuxPkt,
                   demuxPort, panicked, portVars, callVars, upperVars, histVars>>

\* A receive from the output of s.
DeviceRecv(s) ==
    /\ ~panicked
    /\ stackOut[s] # << >>
    /\ stackOut' = [stackOut EXCEPT ![s] = Tail(@)]
    /\ UNCHANGED <<ports, nextport, stackEof, stackOnce, stackIn, demuxPc, demuxPkt,
                   demuxPort, panicked, portVars, callVars, upperVars, histVars>>

(***************************************************************************)
(* Router: the static routing table, and readLoop, handle (with no filter  *)
(* installed) and route.                                                   *)
(***************************************************************************)
\* The table after AddRoute of every stack: the stack that owns the address.
srt(ip) == IF \E s \in Stacks : isLocalAddr(s, ip)
           THEN CHOOSE s \in Stacks : isLocalAddr(s, ip)
           ELSE "none"

\* pkt.TTL-- on the uint8 field.
DecTTL(ttl) == (ttl + 255) % 256

\* A variant of routeIn without the test of the TTL.
routeInNoTTLTest(in, pkt) ==
    LET out == [pkt EXCEPT !.TTL = DecTTL(@)]
        nextHop == srt(pkt.DstAddr)
    IN  IF nextHop = "none"
        THEN [err |-> "errNoRouteToHost", pkt |-> out, nextHop |-> "none", in |-> in]
        ELSE IF Len(in[nextHop]) >= ChanCap
        THEN [err |-> "errBufferFull", pkt |-> out, nextHop |-> nextHop, in |-> in]
        ELSE [err |-> "nil", pkt |-> out, nextHop |-> nextHop,
              in |-> [in EXCEPT ![nextHop] = Append(@, out)]]

\* Router.route when the inputs of the devices are in: the error, the packet with
\* its TTL decremented, the next hop and the inputs after the non-blocking send.
routeIn(in, pkt) ==
    IF pkt.TTL <= 0
    THEN [err |-> "errTTLExceeded", pkt |-> pkt, nextHop |-> "none", in |-> in]
    ELSE LET out == [pkt EXCEPT !.TTL = DecTTL(@)]
             nextHop == srt(pkt.DstAddr)
         IN  IF nextHop = "none"
             THEN [err |-> "errNoRouteToHost", pkt |-> out, nextHop |-> "none", in |-> in]
             ELSE IF Len(in[nextHop]) >= ChanCap
             THEN [err |-> "errBufferFull", pkt |-> out, nextHop |-> nextHop, in |-> in]
             ELSE [err |-> "nil", pkt |-> out, nextHop |-> nextHop,
                   in |-> [in EXCEPT ![nextHop] = Append(@, out)]]

\* Router.route: the error, the packet with its TTL decremented and the next hop.
route(pkt) == routeIn(stackIn, pkt)

\* NewDNSPoisoner: the filter that injects the answers of db for the queries to
\* addrs (to every address when addrs is empty).
NewDNSPoisoner(db, addrs) == [db |-> db, addrs |-> addrs]

\* DNSPoisoner.spoof: the reply to query with the records of the database, from
\* the destination of pkt to its source; nothing when the name is not found.
spoof(p, pkt, query) ==
    LET q0 == query.Question[1]
        l == lookup(p.db, q0.Qtype, q0.Name)
    IN  IF ~l.found THEN << >>
        ELSE <<[TTL |-> 64, SrcAddr |-> pkt.DstAddr, DstAddr |-> pkt.SrcAddr,
                IPProtocol |-> IPProtocolUDP, SrcPort |-> pkt.DstPort,
                DstPort |-> pkt.SrcPort, Flags |-> 0,
                Payload |-> Pack([SetReply(query) EXCEPT !.Answer = l.rrs])]>>

\* A variant of DNSPoisonerFilter that drops the query it answers.
DNSPoisonerFilterDrops(p, pkt) ==
    IF pkt.IPProtocol # IPProtocolUDP \/ pkt.DstPort # 53
    THEN [target |-> "CONTINUE", inject |-> << >>]
    ELSE IF p.addrs # {} /\ pkt.DstAddr \notin p.addrs
    THEN [target |-> "CONTINUE", inject |-> << >>]
    ELSE IF Unpack(pkt.Payload).err # "nil"
    THEN [target |-> "CONTINUE", inject |-> << >>]
    ELSE IF Unpack(pkt.Payload).msg.Response \/ Len(Unpack(pkt.Payload).msg.Question) # 1
    THEN [target |-> "CONTINUE", inject |-> << >>]
    ELSE [target |-> "DROP", inject |-> spoof(p, pkt, Unpack(pkt.Payload).msg)]

\* DNSPoisoner.Filter: a UDP packet to port 53 (and to one of addrs) that holds a
\* query with one question continues, and the spoofed reply is injected.
DNSPoisonerFilter(p, pkt) ==
    IF pkt.IPProtocol # IPProtocolUDP \/ pkt.DstPort # 53
    THEN [target |-> "CONTINUE", inject |-> << >>]
    ELSE IF p.addrs # {} /\ pkt.DstAddr \notin p.addrs
    THEN [target |-> "CONTINUE", inject |-> << >>]
    ELSE IF Unpack(pkt.Payload).err # "nil"
    THEN [target |-> "CONTINUE", inject |-> << >>]
    ELSE IF Unpack(pkt.Payload).msg.Response \/ Len(Unpack(pkt.Payload).msg.Question) # 1
    THEN [target |-> "CONTINUE", inject |-> << >>]
    ELSE [target |-> "CONTINUE", inject |-> spoof(p, pkt, Unpack(pkt.Payload).msg)]

\* A filter of the model: the target it returns and the TTLs of the packets it
\* injects, each an RST from the destination of the packet to its source.
Filter(f, pkt) ==
    IF "db" \in DOMAIN f THEN DNSPoisonerFilter(f, pkt)
    ELSE [target |-> f.target,
          inject |-> [j \in 1..Len(f.inject) |->
                         NewPacket(f.inject[j], AddrPortFrom(pkt.DstAddr, pkt.DstPort),
                                   AddrPortFrom(pkt.SrcAddr, pkt.SrcPort), IPProtocolTCP,
                                   TCPFlagRST, << >>)]]

\* What handle did: the copy of the chain it took for the packet, the call of
\* filter i, and a call of route for the packet injected by filter i (from = i)
\* or for the original packet (from = 0).
CopyEvent(fs, pkt) == [what |-> "copy", from |-> 0, chain |-> fs, pkt |-> pkt]
FilterEvent(i, pkt, target) ==
    [what |-> "filter", from |-> i, pkt |-> pkt, target |-> target]
RouteEvent(i, pkt, r) ==
    [what |-> "route", from |-> i, entry |-> pkt, err |-> r.err, pkt |-> r.pkt,
     nextHop |-> r.nextHop]

\* A variant of routeInjected that hands each injected packet to the filter that
\* injected it before it routes it.
RECURSIVE routeInjectedRefilters(_, _, _, _, _)
routeInjectedRefilters(inject, j, i, in, log) ==
    IF j > Len(inject) THEN [in |-> in, log |-> log]
    ELSE LET r == routeIn(in, inject[j])
         IN  routeInjectedRefilters(inject, j + 1, i, r.in,
                 Append(Append(log, FilterEvent(i, inject[j], "CONTINUE")),
                        RouteEvent(i, inject[j], r)))

\* for _, p := range inject { _ = r.route(p) }, from the j-th packet on.
RECURSIVE routeInjected(_, _, _, _, _)
routeInjected(inject, j, i, in, log) ==
    IF j > Len(inject) THEN [in |-> in, log |-> log]
    ELSE LET r == routeIn(in, inject[j])
         IN  routeInjected(inject, j + 1, i, r.in, Append(log, RouteEvent(i, inject[j], r)))

\* The element of a set of one element: a value that is computed once.
Only(S) == CHOOSE x \in S : TRUE

\* A variant of handleFrom that goes on with the chain after a DROP.
RECURSIVE handleFromIgnoresDrop(_, _, _, _, _)
handleFromIgnoresDrop(fs, i, pkt, in, log) ==
    IF i > Len(fs)
    THEN LET r == routeIn(in, pkt)
         IN  [in |-> r.in, log |-> Append(log, RouteEvent(0, pkt, r))]
    ELSE Only({Only({handleFromIgnoresDrop(fs, i + 1, pkt, inj.in, inj.log) :
                        inj \in {routeInjected(f.inject, 1, i, in,
                                                Append(log, FilterEvent(i, pkt, f.target)))}}) :
                  f \in {Filter(fs[i], pkt)}})

\* Router.handle on the copy fs of the chain, from filter i on: the injected
\* packets of each filter are routed, DROP ends the handling and the original
\* packet is routed after the last filter.
RECURSIVE handleFrom(_, _, _, _, _)
handleFrom(fs, i, pkt, in, log) ==
    IF i > Len(fs)
    THEN LET r == routeIn(in, pkt)
         IN  [in |-> r.in, log |-> Append(log, RouteEvent(0, pkt, r))]
    ELSE Only({Only({IF f.target = "DROP" THEN inj
                     ELSE handleFrom(fs, i + 1, pkt, inj.in, inj.log) :
                        inj \in {routeInjected(f.inject, 1, i, in,
                                                Append(log, FilterEvent(i, pkt, f.target)))}}) :
                  f \in {Filter(fs[i], pkt)}})

\* case pkt := <-dev.Output() of readLoop.
RouterRecv(s) ==
    /\ ~panicked
    /\ routerPc[s] = "loop"
    /\ stackOut[s] # << >>
    /\ stackOut' = [stackOut EXCEPT ![s] = Tail(@)]
    /\ routerPkt' = [routerPkt EXCEPT ![s] = Head(stackOut[s])]
    /\ routerPc' = [routerPc EXCEPT ![s] = "handle"]
    /\ UNCHANGED <<ports, nextport, stackEof, stackOnce, stackIn, demuxPc, demuxPkt,
                   demuxPort, panicked, portVars, callVars, linkVars, userVars, filters, handled,
                   histVars, tcpVars, obsVars>>

\* case <-dev.EOF() of readLoop.
RouterExit(s) ==
    /\ ~panicked
    /\ routerPc[s] = "loop"
    /\ stackEof[s] > 0
    /\ routerPc' = [routerPc EXCEPT ![s] = "exit"]
    /\ UNCHANGED <<ports, nextport, stackEof, stackOnce, stackIn, stackOut, demuxPc, demuxPkt,
                   demuxPort, panicked, portVars, callVars, linkVars, userVars, routerPkt,
                   filters, handled, histVars, tcpVars, obsVars>>

\* A variant of RouterHandle whose route waits for room in the input of the next hop
\* of the packet.
RouterHandleWaits(s) ==
    /\ ~panicked
    /\ routerPc[s] = "handle"
    /\ srt(routerPkt[s].DstAddr) # "none" => Len(stackIn[srt(routerPkt[s].DstAddr)]) < ChanCap
    /\ \E h \in {handleFrom(filters, 1, routerPkt[s], stackIn,
                            <<CopyEvent(filters, routerPkt[s])>>)} :
          /\ stackIn' = h.in
          /\ handled' = h.log
    /\ routerPc' = [routerPc EXCEPT ![s] = "loop"]
    /\ routerPkt' = [routerPkt EXCEPT ![s] = NoPacket]
    /\ UNCHANGED <<ports, nextport, stackEof, stackOnce, stackOut, demuxPc, demuxPkt,
                   demuxPort, panicked, portVars, callVars, linkVars, userVars, filters, histVars,
                   tcpVars, obsVars>>

\* r.handle(pkt): the filters, then route(pkt), whose send to the input of the
\* next hop does not block.
RouterHandle(s) ==
    /\ ~panicked
    /\ routerPc[s] = "handle"
    /\ \E h \in {handleFrom(filters, 1, routerPkt[s], stackIn,
                            <<CopyEvent(filters, routerPkt[s])>>)} :
          /\ stackIn' = h.in
          /\ handled' = h.log
    /\ routerPc' = [routerPc EXCEPT ![s] = "loop"]
    /\ routerPkt' = [routerPkt EXCEPT ![s] = NoPacket]
    /\ UNCHANGED <<ports, nextport, stackEof, stackOnce, stackOut, demuxPc, demuxPkt,
                   demuxPort, panicked, portVars, callVars, linkVars, userVars, filters, histVars,
                   tcpVars, obsVars>>

\* Router.AddFilter: r.filters = append(r.filters, pf).
AddFilter(f) ==
    /\ ~panicked
    /\ filters' = Append(filters, f)
    /\ UNCHANGED <<stackVars, portVars, callVars, linkVars, userVars, routerPc, routerPkt, handled,
                   histVars, tcpVars, obsVars>>

(***************************************************************************)
(* TCPConn.Connect and TCPConn.Accept: the function of initonce.Do.  The   *)
(* TCPConn of package netstack tells an RST from the other flags; that of  *)
(* package netsim does not.                                                *)
(***************************************************************************)
IsDialed(p) == portAddr[p].Protocol = IPProtocolTCP /\ IsValid(portAddr[p].RemoteAddr)
\* The port of p was created by the Accept of a listener.
IsChild(p) == \E l \in PortIds : acceptConn[l] = p

\* The error of Connect for the flags of the packet it read.
ConnectDecision(pkg, flags) ==
    IF pkg = "netstack" /\ flags = TCPFlagRST THEN "ECONNREFUSED"
    ELSE IF flags # TCPFlagSYN + TCPFlagACK THEN "ECONNABORTED"
    ELSE "nil"

\* The deadlines of a context: none, one in the future, one that has passed.
ContextDeadlines == {"none", "future", "past"}

\* if d, ok := ctx.Deadline(); ok { c.SetDeadline(d) }
ConnectBegin(p, ctx) ==
    /\ ~panicked
    /\ Allocated(p) /\ IsDialed(p)
    /\ ~IsChild(p)
    /\ connPc[p] = "idle"
    /\ connPc' = [connPc EXCEPT ![p] = "syn"]
    /\ connCtx' = [connCtx EXCEPT ![p] = ctx # "none"]
    /\ IF ctx # "none"
       THEN SetDeadlineCall(p, ctx)
       ELSE UNCHANGED <<rd, wd, rdPc, rdRes, wrPc, wrRes, lateDeadline, lastSet>>
    /\ UNCHANGED <<stackVars, nextId, portAddr, portStack, portEof, portOnce, muxPc,
                   muxPkt, wrPkt, closePc, stackClosePc, linkVars, lastPut, lastGot, libVars,
                   routerVars, histVars,
                   tcpPkg, connErr, readVars, acceptVars, tcpClosePc, rdCaller, wrCaller,
                   synSent, connFirst, arrived, returned>>

\* err = c.Port.WritePacket(nil, TCPFlagSYN, netip.AddrPort{}): the call begins.
ConnectSyn(p) ==
    /\ ~panicked
    /\ connPc[p] = "syn"
    /\ WritePacketCall(p, "conn", << >>, TCPFlagSYN, NoAddrPort)
    /\ connPc' = [connPc EXCEPT ![p] = "synWait"]
    /\ UNCHANGED <<stackVars, portVars, rdPc, rdRes, closePc, stackClosePc, linkVars, userVars,
                   routerVars, apiRes, closePortCalls, rdAfterClose, lastDemux, lastFind,
                   tcpPkg, connErr, connCtx, readVars, acceptVars, tcpClosePc, rdCaller,
                   obsVars>>

\* WritePacket returned: return on an error, else pkt, err = c.Port.ReadPacket() begins.
ConnectSynDone(p) ==
    /\ ~panicked
    /\ connPc[p] = "synWait"
    /\ wrPc[p] = "done" /\ wrCaller[p] = "conn"
    /\ wrPc' = [wrPc EXCEPT ![p] = "idle"]
    /\ IF wrRes[p] # "nil"
       THEN /\ connErr' = [connErr EXCEPT ![p] = wrRes[p]]
            /\ connPc' = [connPc EXCEPT ![p] = "deferred"]
            /\ UNCHANGED <<rdPc, rdRes, rdCaller, rdAfterClose, synSent>>
       ELSE /\ ReadPacketCall(p, "conn")
            /\ synSent' = [synSent EXCEPT ![p] = @ + 1]
            /\ connPc' = [connPc EXCEPT ![p] = "readWait"]
            /\ UNCHANGED connErr
    /\ UNCHANGED <<stackVars, portVars, wrPkt, wrRes, closePc, stackClosePc, linkVars, userVars,
                   routerVars, apiRes, closePortCalls, wrAfterClose, lastDemux, lastFind,
                   tcpPkg, connCtx, readVars, acceptVars, tcpClosePc, wrCaller,
                   lateDeadline, connFirst, arrived, returned>>

\* ReadPacket returned: its error, or the error the flags of the packet call for.
ConnectDecide(p) ==
    /\ ~panicked
    /\ connPc[p] = "readWait"
    /\ rdPc[p] = "done" /\ rdCaller[p] = "conn"
    /\ rdPc' = [rdPc EXCEPT ![p] = "idle"]
    /\ connFirst' = [connFirst EXCEPT ![p] =
                        [err |-> rdRes[p].err, flags |-> rdRes[p].pkt.Flags]]
    /\ connErr' = [connErr EXCEPT ![p] =
                      IF rdRes[p].err # "nil" THEN rdRes[p].err
                      ELSE ConnectDecision(tcpPkg, rdRes[p].pkt.Flags)]
    /\ connPc' = [connPc EXCEPT ![p] = "deferred"]
    /\ UNCHANGED <<stackVars, portVars, rdRes, wrPc, wrPkt, wrRes, closePc, stackClosePc,
                   linkVars, userVars, routerVars, histVars, tcpPkg, connCtx, readVars, acceptVars,
                   tcpClosePc, rdCaller, wrCaller, lateDeadline, synSent, arrived,
                   returned>>

\* defer c.SetDeadline(time.Time{}), when a deadline was set; Connect or Accept returns.
InitOnceDeferred(p) ==
    /\ ~panicked
    /\ connPc[p] = "deferred"
    /\ connPc' = [connPc EXCEPT ![p] = "done"]
    /\ IF connCtx[p]
       THEN SetDeadlineCall(p, "zero")
       ELSE UNCHANGED <<rd, wd, rdPc, rdRes, wrPc, wrRes, lateDeadline, lastSet>>
    /\ UNCHANGED <<stackVars, nextId, portAddr, portStack, portEof, portOnce, muxPc,
                   muxPkt, wrPkt, closePc, stackClosePc, linkVars, lastPut, lastGot, libVars,
                   routerVars, histVars,
                   tcpPkg, connErr, connCtx, readVars, acceptVars, tcpClosePc, rdCaller,
                   wrCaller, synSent, connFirst, arrived, returned>>

\* TCPConn.Accept of the child c of a listener: c.SetDeadline(time.Now().Add(time.Second)).
ConnAcceptBegin(c) ==
    /\ ~panicked
    /\ \E l \in PortIds : acceptPc[l] = "accept" /\ acceptConn[l] = c
    /\ connPc[c] = "idle"
    /\ connPc' = [connPc EXCEPT ![c] = "synack"]
    /\ connCtx' = [connCtx EXCEPT ![c] = TRUE]
    /\ SetDeadlineCall(c, "future")
    /\ UNCHANGED <<stackVars, nextId, portAddr, portStack, portEof, portOnce, muxPc,
                   muxPkt, wrPkt, closePc, stackClosePc, linkVars, lastPut, lastGot, libVars,
                   routerVars, histVars,
                   tcpPkg, connErr, readVars, acceptVars, tcpClosePc, rdCaller, wrCaller,
                   synSent, connFirst, arrived, returned>>

\* err = c.Port.WritePacket(nil, TCPFlagSYN|TCPFlagACK, netip.AddrPort{}): the call begins.
ConnAcceptSynAck(c) ==
    /\ ~panicked
    /\ connPc[c] = "synack"
    /\ WritePacketCall(c, "conn", << >>, TCPFlagSYN + TCPFlagACK, NoAddrPort)
    /\ connPc' = [connPc EXCEPT ![c] = "synackWait"]
    /\ UNCHANGED <<stackVars, portVars, rdPc, rdRes, closePc, stackClosePc, linkVars, userVars,
                   routerVars, apiRes, closePortCalls, rdAfterClose, lastDemux, lastFind,
                   tcpPkg, connErr, connCtx, readVars, acceptVars, tcpClosePc, rdCaller,
                   obsVars>>

\* WritePacket returned: its error is that of Accept.
ConnAcceptWritten(c) ==
    /\ ~panicked
    /\ connPc[c] = "synackWait"
    /\ wrPc[c] = "done" /\ wrCaller[c] = "conn"
    /\ wrPc' = [wrPc EXCEPT ![c] = "idle"]
    /\ connErr' = [connErr EXCEPT ![c] = wrRes[c]]
    /\ connPc' = [connPc EXCEPT ![c] = "deferred"]
    /\ UNCHANGED <<stackVars, portVars, rdPc, rdRes, wrPkt, wrRes, closePc, stackClosePc,
                   linkVars, userVars, routerVars, histVars, tcpPkg, connCtx, readVars, acceptVars,
                   tcpClosePc, rdCaller, wrCaller, obsVars>>

(***************************************************************************)
(* TCPConn.Close: the FIN, whose error is ignored, then Port.Close.        *)
(***************************************************************************)
\* Who holds the TCPConn of p may close it: dialContext and TCPListener.Accept after
\* a failed handshake, the user once the connection was returned.
MayClose(p) ==
    /\ connPc[p] = "done"
    /\ \/ connErr[p] # "nil"
       \/ ~IsChild(p)
       \/ \E l \in PortIds : acceptRes[l].conn = p

\* c.Port.WritePacket(nil, TCPFlagFIN, netip.AddrPort{}): the call begins.
TCPConnCloseBegin(p) ==
    /\ ~panicked
    /\ Allocated(p) /\ IsDialed(p)
    /\ MayClose(p)
    /\ tcpClosePc[p] = "idle"
    /\ WritePacketCall(p, "close", << >>, TCPFlagFIN, NoAddrPort)
    /\ tcpClosePc' = [tcpClosePc EXCEPT ![p] = "fin"]
    /\ UNCHANGED <<stackVars, portVars, rdPc, rdRes, closePc, stackClosePc, linkVars, userVars,
                   routerVars, apiRes, closePortCalls, rdAfterClose, lastDemux, lastFind,
                   tcpPkg, connVars, readVars, acceptVars, rdCaller, obsVars>>

\* WritePacket returned: return c.Port.Close(), as the first caller of Port.Close.
TCPConnCloseFin(p) ==
    /\ ~panicked
    /\ tcpClosePc[p] = "fin"
    /\ wrPc[p] = "done" /\ wrCaller[p] = "close"
    /\ closePc[p][1] = "idle"
    /\ wrPc' = [wrPc EXCEPT ![p] = "idle"]
    /\ portOnce' = [portOnce EXCEPT ![p] = OnceEnter(@)]
    /\ closePc' = [closePc EXCEPT ![p][1] = OnceCallerPc(portOnce[p])]
    /\ tcpClosePc' = [tcpClosePc EXCEPT ![p] = "portClose"]
    /\ UNCHANGED <<stackVars, nextId, portAddr, portStack, portEof, rd, wd, muxPc, muxPkt,
                   rdPc, rdRes, wrPkt, wrRes, stackClosePc, linkVars, userVars, routerVars, histVars,
                   tcpPkg, connVars, readVars, acceptVars, rdCaller, wrCaller, obsVars>>

\* Port.Close returned.
TCPConnCloseReturn(p) ==
    /\ ~panicked
    /\ tcpClosePc[p] = "portClose"
    /\ closePc[p][1] = "done"
    /\ tcpClosePc' = [tcpClosePc EXCEPT ![p] = "done"]
    /\ UNCHANGED <<stackVars, portVars, callVars, linkVars, userVars, routerVars, histVars,
                   tcpPkg, connVars, readVars, acceptVars, rdCaller, wrCaller, obsVars>>

(***************************************************************************)
(* TCPListener.Accept on the listening port l.                             *)
(***************************************************************************)
IsListener(p) == portAddr[p].Protocol = IPProtocolTCP /\ ~IsValid(portAddr[p].RemoteAddr)

\* The top of the loop: pkt, err := tl.Port.ReadPacket() begins, when Accept is
\* called, after a continue, and after conn.Close() of a child whose Accept failed.
AcceptLoop(l) ==
    /\ ~panicked
    /\ Allocated(l) /\ IsListener(l)
    /\ \/ acceptPc[l] \in {"idle", "loop"}
       \/ acceptPc[l] = "closeConn" /\ tcpClosePc[acceptConn[l]] = "done"
    /\ ReadPacketCall(l, "accept")
    /\ acceptPc' = [acceptPc EXCEPT ![l] = "read"]
    /\ UNCHANGED <<stackVars, portVars, wrPc, wrPkt, wrRes, closePc, stackClosePc, linkVars, userVars,
                   routerVars, apiRes, closePortCalls, wrAfterClose, lastDemux, lastFind,
                   tcpPkg, connVars, readVars, acceptPkt, acceptConn, acceptRes, tcpClosePc,
                   wrCaller, obsVars>>

\* A variant of AcceptRead that continues unless the SYN bit is among the flags.
AcceptReadSynBit(l) ==
    /\ ~panicked
    /\ acceptPc[l] = "read"
    /\ rdPc[l] = "done" /\ rdCaller[l] = "accept"
    /\ rdPc' = [rdPc EXCEPT ![l] = "idle"]
    /\ IF rdRes[l].err # "nil"
       THEN /\ acceptRes' = [acceptRes EXCEPT ![l] = [conn |-> NoPort, err |-> rdRes[l].err]]
            /\ acceptPc' = [acceptPc EXCEPT ![l] = "done"]
            /\ UNCHANGED acceptPkt
       ELSE IF (rdRes[l].pkt.Flags \div TCPFlagSYN) % 2 = 0
       THEN /\ acceptPc' = [acceptPc EXCEPT ![l] = "loop"]
            /\ UNCHANGED <<acceptRes, acceptPkt>>
       ELSE /\ acceptPkt' = [acceptPkt EXCEPT ![l] = rdRes[l].pkt]
            /\ acceptPc' = [acceptPc EXCEPT ![l] = "newConn"]
            /\ UNCHANGED acceptRes
    /\ UNCHANGED <<stackVars, portVars, rdRes, wrPc, wrPkt, wrRes, closePc, stackClosePc,
                   linkVars, userVars, routerVars, histVars, tcpPkg, connVars, readVars, acceptConn,
                   tcpClosePc, rdCaller, wrCaller, obsVars>>

\* ReadPacket returned: return its error, continue unless the flags are SYN.
AcceptRead(l) ==
    /\ ~panicked
    /\ acceptPc[l] = "read"
    /\ rdPc[l] = "done" /\ rdCaller[l] = "accept"
    /\ rdPc' = [rdPc EXCEPT ![l] = "idle"]
    /\ IF rdRes[l].err # "nil"
       THEN /\ acceptRes' = [acceptRes EXCEPT ![l] = [conn |-> NoPort, err |-> rdRes[l].err]]
            /\ acceptPc' = [acceptPc EXCEPT ![l] = "done"]
            /\ UNCHANGED acceptPkt
       ELSE IF rdRes[l].pkt.Flags # TCPFlagSYN
       THEN /\ acceptPc' = [acceptPc EXCEPT ![l] = "loop"]
            /\ UNCHANGED <<acceptRes, acceptPkt>>
       ELSE /\ acceptPkt' = [acceptPkt EXCEPT ![l] = rdRes[l].pkt]
            /\ acceptPc' = [acceptPc EXCEPT ![l] = "newConn"]
            /\ UNCHANGED acceptRes
    /\ UNCHANGED <<stackVars, portVars, rdRes, wrPc, wrPkt, wrRes, closePc, stackClosePc,
                   linkVars, userVars, routerVars, histVars, tcpPkg, connVars, readVars, acceptConn,
                   tcpClosePc, rdCaller, wrCaller, obsVars>>

\* A variant of AcceptNewConn that keys the child port with local = SYN source and
\* remote = SYN destination.
AcceptNewConnSwapped(l) ==
    /\ ~panicked
    /\ acceptPc[l] = "newConn"
    /\ newPortLocked(portStack[l], "NewTCPConn", IPProtocolTCP,
                     AddrPortFrom(acceptPkt[l].SrcAddr, acceptPkt[l].SrcPort),
                     AddrPortFrom(acceptPkt[l].DstAddr, acceptPkt[l].DstPort))
    /\ acceptPc' = [acceptPc EXCEPT ![l] = IF apiRes'.err = "nil" THEN "accept" ELSE "loop"]
    /\ acceptConn' = [acceptConn EXCEPT ![l] = IF apiRes'.err = "nil" THEN apiRes'.port ELSE @]
    /\ UNCHANGED nextport
    /\ UNCHANGED <<stackEof, stackOnce, stackIn, stackOut, demuxPc, demuxPkt, demuxPort,
                   panicked, portEof, portOnce, rd, wd, muxPkt, callVars, linkVars, userVars,
                   routerVars, closePortCalls, rdAfterClose, wrAfterClose, lastDemux,
                   lastFind, tcpPkg, connVars, readVars, acceptPkt, acceptRes, tcpClosePc,
                   rdCaller, wrCaller, obsVars>>

\* conn, err := tl.stack.NewTCPConn(laddr, raddr): continue on an error.
AcceptNewConn(l) ==
    /\ ~panicked
    /\ acceptPc[l] = "newConn"
    /\ newPortLocked(portStack[l], "NewTCPConn", IPProtocolTCP,
                     AddrPortFrom(acceptPkt[l].DstAddr, acceptPkt[l].DstPort),
                     AddrPortFrom(acceptPkt[l].SrcAddr, acceptPkt[l].SrcPort))
    /\ acceptPc' = [acceptPc EXCEPT ![l] = IF apiRes'.err = "nil" THEN "accept" ELSE "loop"]
    /\ acceptConn' = [acceptConn EXCEPT ![l] = IF apiRes'.err = "nil" THEN apiRes'.port ELSE @]
    /\ UNCHANGED nextport
    /\ UNCHANGED <<stackEof, stackOnce, stackIn, stackOut, demuxPc, demuxPkt, demuxPort,
                   panicked, portEof, portOnce, rd, wd, muxPkt, callVars, linkVars, userVars,
                   routerVars, closePortCalls, rdAfterClose, wrAfterClose, lastDemux,
                   lastFind, tcpPkg, connVars, readVars, acceptPkt, acceptRes, tcpClosePc,
                   rdCaller, wrCaller, obsVars>>

\* conn.Accept() returned: return conn, or conn.Close() and continue on an error.
AcceptConnDone(l) ==
    /\ ~panicked
    /\ acceptPc[l] = "accept"
    /\ connPc[acceptConn[l]] = "done"
    /\ IF connErr[acceptConn[l]] = "nil"
       THEN /\ acceptRes' = [acceptRes EXCEPT ![l] = [conn |-> acceptConn[l], err |-> "nil"]]
            /\ acceptPc' = [acceptPc EXCEPT ![l] = "done"]
       ELSE /\ acceptPc' = [acceptPc EXCEPT ![l] = "closeConn"]
            /\ UNCHANGED acceptRes
    /\ UNCHANGED <<stackVars, portVars, callVars, linkVars, userVars, routerVars, histVars, tcpPkg,
                   connVars, readVars, acceptPkt, acceptConn, tcpClosePc, rdCaller,
                   wrCaller, obsVars>>

\* The caller takes the result of Accept.
AcceptReturn(l) ==
    /\ ~panicked
    /\ acceptPc[l] = "done"
    /\ acceptPc' = [acceptPc EXCEPT ![l] = "idle"]
    /\ UNCHANGED <<stackVars, portVars, callVars, linkVars, userVars, routerVars, histVars, tcpPkg,
                   connVars, readVars, acceptPkt, acceptConn, acceptRes, tcpClosePc,
                   rdCaller, wrCaller, obsVars>>

(***************************************************************************)
(* TCPConn.Read: a loop of c.buf.Read(buf) and of c.Port.ReadPacket().     *)
(***************************************************************************)
\* bytes.Buffer.Read into a slice of n bytes: the count, the error, what is left.
bufRead(b, n) ==
    IF Len(b) = 0
    THEN [count |-> 0, err |-> IF n = 0 THEN "nil" ELSE "EOF", data |-> << >>, rest |-> << >>]
    ELSE LET k == IF n < Len(b) THEN n ELSE Len(b)
         IN  [count |-> k, err |-> "nil", data |-> SubSeq(b, 1, k),
              rest |-> SubSeq(b, k + 1, Len(b))]

\* Read(buf) is called with len(buf) = n.
ReadBegin(p, n) ==
    /\ ~panicked
    /\ Allocated(p) /\ IsDialed(p)
    /\ connPc[p] = "done" /\ connErr[p] = "nil"
    /\ readPc[p] = "idle"
    /\ readPc' = [readPc EXCEPT ![p] = "buf"]
    /\ readLen' = [readLen EXCEPT ![p] = n]
    /\ readRes' = [readRes EXCEPT ![p] = NoReadRes]
    /\ UNCHANGED <<stackVars, portVars, callVars, linkVars, userVars, routerVars, histVars, tcpPkg,
                   connVars, connBuf, acceptVars, tcpClosePc, rdCaller, wrCaller, obsVars>>

\* count, err := c.buf.Read(buf): return when count > 0, else ReadPacket begins.
ReadBuf(p) ==
    /\ ~panicked
    /\ readPc[p] = "buf"
    /\ LET r == bufRead(connBuf[p], readLen[p])
       IN  IF r.count > 0
           THEN /\ connBuf' = [connBuf EXCEPT ![p] = r.rest]
                /\ readRes' = [readRes EXCEPT ![p] = [n |-> r.count, err |-> "nil", data |-> r.data]]
                /\ returned' = [returned EXCEPT ![p] = @ \o r.data]
                /\ readPc' = [readPc EXCEPT ![p] = "done"]
                /\ UNCHANGED <<rdPc, rdRes, rdCaller, rdAfterClose>>
           ELSE /\ ReadPacketCall(p, "read")
                /\ readPc' = [readPc EXCEPT ![p] = "packet"]
                /\ UNCHANGED <<connBuf, readRes, returned>>
    /\ UNCHANGED <<stackVars, portVars, wrPc, wrPkt, wrRes, closePc, stackClosePc, linkVars, userVars,
                   routerVars, apiRes, closePortCalls, wrAfterClose, lastDemux, lastFind,
                   tcpPkg, connVars, readLen, acceptVars, tcpClosePc, wrCaller,
                   lateDeadline, synSent, connFirst, arrived>>

\* The error Read returns when ReadPacket failed with err.
ReadError(pkg, err) == IF pkg = "netsim" THEN "nil" ELSE err

\* ReadPacket returned: its error, EOF on a FIN, ECONNRESET on an RST, else
\* c.buf.Write(pkt.Payload) and the loop goes on.
ReadPacketDone(p) ==
    /\ ~panicked
    /\ readPc[p] = "packet"
    /\ rdPc[p] = "done" /\ rdCaller[p] = "read"
    /\ rdPc' = [rdPc EXCEPT ![p] = "idle"]
    /\ LET pkt == rdRes[p].pkt
       IN  IF rdRes[p].err # "nil"
           THEN /\ readRes' = [readRes EXCEPT ![p] =
                                  [n |-> 0, err |-> ReadError(tcpPkg, rdRes[p].err), data |-> << >>]]
                /\ readPc' = [readPc EXCEPT ![p] = "done"]
                /\ UNCHANGED <<connBuf, arrived>>
           ELSE IF HasFlag(pkt.Flags, TCPFlagFIN)
           THEN /\ readRes' = [readRes EXCEPT ![p] = [n |-> 0, err |-> "EOF", data |-> << >>]]
                /\ readPc' = [readPc EXCEPT ![p] = "done"]
                /\ UNCHANGED <<connBuf, arrived>>
           ELSE IF HasFlag(pkt.Flags, TCPFlagRST)
           THEN /\ readRes' = [readRes EXCEPT ![p] = [n |-> 0, err |-> "ECONNRESET", data |-> << >>]]
                /\ readPc' = [readPc EXCEPT ![p] = "done"]
                /\ UNCHANGED <<connBuf, arrived>>
           ELSE /\ connBuf' = [connBuf EXCEPT ![p] = @ \o pkt.Payload]
                /\ arrived' = [arrived EXCEPT ![p] = @ \o pkt.Payload]
                /\ readPc' = [readPc EXCEPT ![p] = "buf"]
                /\ UNCHANGED readRes
    /\ UNCHANGED <<stackVars, portVars, rdRes, wrPc, wrPkt, wrRes, closePc, stackClosePc,
                   linkVars, userVars, routerVars, histVars, tcpPkg, connVars, readLen, acceptVars,
                   tcpClosePc, rdCaller, wrCaller, lateDeadline, synSent, connFirst,
                   returned>>

\* The caller takes the result of Read.
ReadReturn(p) ==
    /\ ~panicked
    /\ readPc[p] = "done"
    /\ readPc' = [readPc EXCEPT ![p] = "idle"]
    /\ UNCHANGED <<stackVars, portVars, callVars, linkVars, userVars, routerVars, histVars, tcpPkg,
                   connVars, connBuf, readLen, readRes, acceptVars, tcpClosePc, rdCaller,
                   wrCaller, obsVars>>

(***************************************************************************)
(* SpecStackClose: a UDP port of a stack with a reader and a writer, the   *)
(* traffic of the stack, and Stack.Close.  The port is not closed and no   *)
(* deadline is set.  SpecStackCloseFair adds the fairness of the Go        *)
(* scheduler: a goroutine that can take a step eventually takes it.        *)
(***************************************************************************)
StackClosePort == AddrPortFrom(ServerIP4, 53)
StackCloseRemote == AddrPortFrom(ClientIP4, 1000)
StackClosePackets ==
    {NewPacket(linuxDefaultTTL, StackCloseRemote, AddrPortFrom(ServerIP4, port),
               IPProtocolUDP, 0, << >>) : port \in {53, 54}}

NextStackClose ==
    \/ ListenPacket("server", "udp", StackClosePort)
    \/ \E p \in PortIds : ReadPacketBegin(p)
    \/ \E p \in PortIds : ReadPacketReturn(p)
    \/ \E p \in PortIds : ReadPacketRecv(p)
    \/ \E p \in PortIds : ReadPacketPark(p)
    \/ \E p \in PortIds : WritePacketBegin(p, << >>, 0, StackCloseRemote)
    \/ \E p \in PortIds : WritePacketReturn(p)
    \/ \E p \in PortIds : WritePacketSend(p)
    \/ \E p \in PortIds : WritePacketPark(p)
    \/ \E p \in PortIds : MuxRecv(p)
    \/ \E p \in PortIds : MuxStackEof(p)
    \/ \E p \in PortIds : MuxPark(p)
    \/ \E p \in PortIds : MuxForward(p)
    \/ DemuxRecv("server")
    \/ DemuxExit("server")
    \/ DemuxDeliverStackEof("server")
    \/ DemuxDeliverSend("server")
    \/ DemuxDeliverPark("server")
    \/ \E pkt \in StackClosePackets : DeviceSend("server", pkt)
    \/ DeviceRecv("server")
    \/ StackCloseBegin("server", 1)
    \/ StackCloseCloseEof("server", 1)

\* The steps of the goroutines of a port and of a stack, which the scheduler runs.
PortSteps(p) ==
    \/ ReadPacketRecv(p) \/ ReadPacketEof(p) \/ ReadPacketDeadline(p) \/ ReadPacketPark(p)
    \/ WritePacketSend(p) \/ WritePacketEof(p) \/ WritePacketDeadline(p) \/ WritePacketPark(p)
    \/ MuxRecv(p) \/ MuxPortEof(p) \/ MuxStackEof(p) \/ MuxPark(p) \/ MuxForward(p)

StackSteps(s) ==
    \/ DemuxRecv(s) \/ DemuxExit(s) \/ DemuxDeliverPortEof(s) \/ DemuxDeliverStackEof(s)
    \/ DemuxDeliverSend(s) \/ DemuxDeliverPark(s)
    \/ \E k \in Closers : StackCloseCloseEof(s, k) \/ StackCloseWaited(s, k)

SchedulerFairness ==
    /\ \A p \in PortIds : WF_vars(PortSteps(p))
    /\ \A s \in Stacks : WF_vars(StackSteps(s))

SpecStackClose == Init /\ [][NextStackClose]_vars
SpecStackCloseFair == SpecStackClose /\ SchedulerFairness

\* The ReadPacket and WritePacket calls of the user that have not returned.
ReadPending(p) == rdPc[p] \in {"select", "parked"}
WritePending(p) == wrPc[p] \in {"select", "parked"}

\* C2: after Stack.Close, every ReadPacket and every WritePacket that is blocked,
\* or started later, on a port of the stack eventually returns CLOSED, although
\* the port was not closed and no deadline is set.
C2_StackCloseUnblocks ==
    \A p \in PortIds :
        /\ (stackEof["server"] > 0 /\ ReadPending(p))
              ~> (rdPc[p] = "done" /\ rdRes[p].err = "ErrClosed")
        /\ (stackEof["server"] > 0 /\ WritePending(p))
              ~> (wrPc[p] = "done" /\ wrRes[p] = "ErrClosed")

(***************************************************************************)
(* SpecPortClose: an unconnected UDP port of a stack with a reader and a   *)
(* writer, the traffic of the stack, the deadlines of the port, and        *)
(* Port.Close.                                                             *)
(***************************************************************************)
PortCloseRemotes == {NoAddrPort, StackCloseRemote}
\* The deadlines of this specification are set to the zero time or have expired.
PortCloseTimes == {"zero", "past"}
PortClosePackets ==
    {NewPacket(linuxDefaultTTL, StackCloseRemote, StackClosePort, IPProtocolUDP, 0, << >>)}

\* The state after ListenPacket("udp", StackClosePort) returned port 1.
InitPortClose ==
    /\ ports = [s \in Stacks |->
                   IF s = "server"
                   THEN [a \in {NewPortAddr(StackClosePort, IPProtocolUDP, NoAddrPort)} |-> 1]
                   ELSE EmptyTable]
    /\ nextId = 1
    /\ portAddr = [p \in PortIds |->
                      IF p = 1 THEN NewPortAddr(StackClosePort, IPProtocolUDP, NoAddrPort)
                      ELSE NoPortAddr]
    /\ portStack = [p \in PortIds |-> IF p = 1 THEN "server" ELSE "none"]
    /\ muxPc = [p \in PortIds |-> IF p = 1 THEN "select" ELSE "none"]
    /\ apiRes = [op |-> "ListenPacket", err |-> "nil", port |-> 1]
    /\ nextport = [s \in Stacks |->
                      [pr \in {IPProtocolTCP, IPProtocolUDP} |-> firstEphemeralPort]]
    /\ stackEof = [s \in Stacks |-> 0]
    /\ stackOnce = [s \in Stacks |-> "new"]
    /\ stackIn = [s \in Stacks |-> << >>]
    /\ stackOut = [s \in Stacks |-> << >>]
    /\ demuxPc = [s \in Stacks |-> "loop"]
    /\ demuxPkt = [s \in Stacks |-> NoPacket]
    /\ demuxPort = [s \in Stacks |-> NoPort]
    /\ panicked = FALSE
    /\ portEof = [p \in PortIds |-> 0]
    /\ portOnce = [p \in PortIds |-> "new"]
    /\ rd = [p \in PortIds |-> NoDeadline]
    /\ wd = [p \in PortIds |-> NoDeadline]
    /\ muxPkt = [p \in PortIds |-> NoPacket]
    /\ closePortCalls = [p \in PortIds |-> 0]
    /\ rdAfterClose = [p \in PortIds |-> FALSE]
    /\ wrAfterClose = [p \in PortIds |-> FALSE]
    /\ lastDemux = NoDemux
    /\ lastFind = [pkt |-> NoPacket, port |-> NoPort]
    /\ InitCalls /\ InitLink /\ InitRouter /\ InitNoTcp

NextPortClose ==
    \/ \E p \in PortIds : ReadPacketBegin(p)
    \/ \E p \in PortIds : ReadPacketReturn(p)
    \/ \E p \in PortIds : ReadPacketRecv(p)
    \/ \E p \in PortIds : ReadPacketEof(p)
    \/ \E p \in PortIds : ReadPacketDeadline(p)
    \/ \E p \in PortIds : ReadPacketPark(p)
    \/ \E p \in PortIds, r \in PortCloseRemotes : WritePacketBegin(p, << >>, 0, r)
    \/ \E p \in PortIds : WritePacketReturn(p)
    \/ \E p \in PortIds : WritePacketSend(p)
    \/ \E p \in PortIds : WritePacketEof(p)
    \/ \E p \in PortIds : WritePacketDeadline(p)
    \/ \E p \in PortIds : WritePacketPark(p)
    \/ \E p \in PortIds : MuxRecv(p)
    \/ \E p \in PortIds : MuxPortEof(p)
    \/ \E p \in PortIds : MuxPark(p)
    \/ \E p \in PortIds : MuxForward(p)
    \/ DemuxRecv("server")
    \/ DemuxDeliverPortEof("server")
    \/ DemuxDeliverSend("server")
    \/ DemuxDeliverPark("server")
    \/ \E pkt \in PortClosePackets : DeviceSend("server", pkt)
    \/ DeviceRecv("server")
    \/ \E p \in PortIds, t \in PortCloseTimes : SetDeadline(p, t)
    \/ \E p \in PortIds : PortCloseBegin(p, 1)
    \/ \E p \in PortIds : PortCloseClosePort(p, 1)
    \/ \E p \in PortIds : PortCloseCloseEof(p, 1)
    \/ \E p \in PortIds : PortCloseDeadlines(p, 1)

SpecPortClose == InitPortClose /\ [][NextPortClose]_vars

\* C3 (as stated): once Port.Close has returned, every ReadPacket started
\* afterwards returns CLOSED and never a packet, and every WritePacket started
\* afterwards returns CLOSED and never hands a packet to the stack.
C3_ClosedAfterClose ==
    \A p \in PortIds :
        /\ rdAfterClose[p] /\ rdPc[p] = "done" => rdRes[p] = ErrResult("ErrClosed")
        /\ wrAfterClose[p] /\ wrPc[p] = "done" => wrRes[p] = "ErrClosed"

\* C3 (amended): once Port.Close has returned, a ReadPacket started afterwards
\* never blocks and never returns a packet: it returns CLOSED, or TIMEDOUT when a
\* read deadline expired after Close began; a WritePacket started afterwards
\* never blocks and never hands a packet to the stack: it returns CLOSED, or
\* TIMEDOUT when a write deadline expired after Close began, or NOTCONN when it
\* has no destination.
C3_NoPacketAfterClose ==
    \A p \in PortIds :
        /\ rdAfterClose[p] /\ rdPc[p] # "idle" => rdPc[p] # "parked"
        /\ rdAfterClose[p] /\ rdPc[p] = "done" =>
              \/ rdRes[p] = ErrResult("ErrClosed")
              \/ rdRes[p] = ErrResult("ErrDeadlineExceeded") /\ "rd" \in lateDeadline[p]
        /\ wrAfterClose[p] /\ wrPc[p] # "idle" => wrPc[p] # "parked"
        /\ wrAfterClose[p] /\ wrPc[p] = "done" =>
              \/ wrRes[p] = "ErrClosed"
              \/ wrRes[p] = "ErrDeadlineExceeded" /\ "wd" \in lateDeadline[p]
              \/ wrRes[p] = "ENOTCONN" /\ wrPkt[p] = NoPacket
                    /\ ~IsValid(portAddr[p].RemoteAddr)

\* A ReadPacket and a WritePacket that began after Close returned have returned
\* CLOSED, and the demux found the port closed when it came to deliver to it.
C3_Witness ==
    \E p \in PortIds :
        /\ rdAfterClose[p] /\ rdPc[p] = "done" /\ rdRes[p].err = "ErrClosed"
        /\ wrAfterClose[p] /\ wrPc[p] = "done" /\ wrRes[p] = "ErrClosed"
        /\ lastDemux.port = p /\ lastDemux.outcome = "ErrClosed"

(***************************************************************************)
(* SpecReset: the demux of a stack with a TCP listener on port 80 and a    *)
(* connected UDP port whose writes fill the output of the stack, under     *)
(* packets for open and closed ports, local and foreign addresses.         *)
(***************************************************************************)
ResetRemote == AddrPortFrom(ClientIP4, 1000)
ResetPacket(dst, protocol, flags) ==
    NewPacket(linuxDefaultTTL, ResetRemote, dst, protocol, flags, << >>)
\* A SYN for the listener; a SYN, an ACK and a datagram for the closed port 81;
\* a SYN for an address that is not local.
ResetPackets ==
    {ResetPacket(AddrPortFrom(ServerIP4, 80), IPProtocolTCP, TCPFlagSYN),
     ResetPacket(AddrPortFrom(ServerIP4, 81), IPProtocolTCP, TCPFlagSYN),
     ResetPacket(AddrPortFrom(ServerIP4, 81), IPProtocolTCP, TCPFlagACK),
     ResetPacket(AddrPortFrom(ServerIP4, 81), IPProtocolUDP, 0),
     ResetPacket(AddrPortFrom(ClientIP4, 81), IPProtocolTCP, TCPFlagSYN)}

ResetListener == NewPortAddr(AddrPortFrom(IPv6Unspecified, 80), IPProtocolTCP, NoAddrPort)
ResetDialed ==
    NewPortAddr(AddrPortFrom(ServerIP4, firstEphemeralPort), IPProtocolUDP, ResetRemote)

\* The state after Listen("tcp", "[::]:80") returned port 1 and the dial of
\* ("udp", ResetRemote) returned port 2.
InitReset ==
    /\ ports = [s \in Stacks |->
                   IF s = "server"
                   THEN [a \in {ResetListener, ResetDialed} |->
                            IF a = ResetListener THEN 1 ELSE 2]
                   ELSE EmptyTable]
    /\ nextId = 2
    /\ portAddr = [p \in PortIds |->
                      IF p = 1 THEN ResetListener ELSE IF p = 2 THEN ResetDialed
                      ELSE NoPortAddr]
    /\ portStack = [p \in PortIds |-> IF p <= 2 THEN "server" ELSE "none"]
    /\ muxPc = [p \in PortIds |-> IF p <= 2 THEN "select" ELSE "none"]
    /\ apiRes = [op |-> "dial", err |-> "nil", port |-> 2]
    /\ nextport = [s \in Stacks |->
                      [pr \in {IPProtocolTCP, IPProtocolUDP} |->
                          IF s = "server" /\ pr = IPProtocolUDP
                          THEN firstEphemeralPort + 1 ELSE firstEphemeralPort]]
    /\ stackEof = [s \in Stacks |-> 0]
    /\ stackOnce = [s \in Stacks |-> "new"]
    /\ stackIn = [s \in Stacks |-> << >>]
    /\ stackOut = [s \in Stacks |-> << >>]
    /\ demuxPc = [s \in Stacks |-> "loop"]
    /\ demuxPkt = [s \in Stacks |-> NoPacket]
    /\ demuxPort = [s \in Stacks |-> NoPort]
    /\ panicked = FALSE
    /\ portEof = [p \in PortIds |-> 0]
    /\ portOnce = [p \in PortIds |-> "new"]
    /\ rd = [p \in PortIds |-> NoDeadline]
    /\ wd = [p \in PortIds |-> NoDeadline]
    /\ muxPkt = [p \in PortIds |-> NoPacket]
    /\ closePortCalls = [p \in PortIds |-> 0]
    /\ rdAfterClose = [p \in PortIds |-> FALSE]
    /\ wrAfterClose = [p \in PortIds |-> FALSE]
    /\ lastDemux = NoDemux
    /\ lastFind = [pkt |-> NoPacket, port |-> NoPort]
    /\ InitCalls /\ InitLink /\ InitRouter /\ InitNoTcp

NextReset ==
    \/ ReadPacketBegin(1)
    \/ ReadPacketReturn(1)
    \/ \E p \in PortIds : ReadPacketRecv(p)
    \/ \E p \in PortIds : ReadPacketPark(p)
    \/ WritePacketBegin(2, << >>, 0, NoAddrPort)
    \/ WritePacketReturn(2)
    \/ WritePacketSend(2)
    \/ WritePacketPark(2)
    \/ MuxRecv(2)
    \/ MuxPark(2)
    \/ MuxForward(2)
    \/ DemuxRecv("server")
    \/ DemuxDeliverSend("server")
    \/ DemuxDeliverPark("server")
    \/ \E pkt \in ResetPackets : DeviceSend("server", pkt)
    \/ DeviceRecv("server")

SpecReset == InitReset /\ [][NextReset]_vars

\* The RST that answers the SYN pkt: the endpoints swapped.
RstFor(pkt, resp) ==
    /\ resp.Flags = TCPFlagRST /\ resp.IPProtocol = IPProtocolTCP
    /\ resp.SrcAddr = pkt.DstAddr /\ resp.SrcPort = pkt.DstPort
    /\ resp.DstAddr = pkt.SrcAddr /\ resp.DstPort = pkt.SrcPort

\* C6: when demux handles a TCP packet whose flags are exactly SYN, whose
\* destination is local and for which no port matches, exactly one RST (endpoints
\* swapped) is placed on the output of the stack when the output has room and
\* none when it is full, and the demux loop goes on with the next packet; a
\* non-SYN or UDP packet without a matching port causes no emission.
C6_ResetOnClosedPort ==
    /\ ~panicked
    /\ (/\ lastDemux.pkt # NoPacket /\ lastDemux.port = NoPort
        /\ lastDemux.pkt.TTL > 0 /\ isLocalAddr("server", lastDemux.pkt.DstAddr))
         => IF lastDemux.pkt.IPProtocol = IPProtocolTCP /\ lastDemux.pkt.Flags = TCPFlagSYN
            THEN IF lastDemux.room
                 THEN Len(lastDemux.emitted) = 1 /\ RstFor(lastDemux.pkt, lastDemux.emitted[1])
                 ELSE lastDemux.emitted = << >>
            ELSE lastDemux.emitted = << >>

(***************************************************************************)
(* The state after construction of the stacks and after the calls that     *)
(* opened the ports of the sequence open (of records [stack, addr]), in    *)
(* that order, every call having returned.                                 *)
(***************************************************************************)
OpenedBy(open, s) == {i \in 1..Len(open) : open[i].stack = s}

InitOpened(open) ==
    /\ ports = [s \in Stacks |->
                   [a \in {open[i].addr : i \in OpenedBy(open, s)} |->
                       CHOOSE i \in OpenedBy(open, s) : open[i].addr = a]]
    /\ nextId = Len(open)
    /\ portAddr = [p \in PortIds |-> IF p <= Len(open) THEN open[p].addr ELSE NoPortAddr]
    /\ portStack = [p \in PortIds |-> IF p <= Len(open) THEN open[p].stack ELSE "none"]
    /\ muxPc = [p \in PortIds |-> IF p <= Len(open) THEN "select" ELSE "none"]
    /\ nextport = [s \in Stacks |->
                      [pr \in {IPProtocolTCP, IPProtocolUDP} |->
                          firstEphemeralPort +
                          Cardinality({i \in OpenedBy(open, s) :
                                          /\ open[i].addr.Protocol = pr
                                          /\ open[i].addr.LocalAddr.port >= firstEphemeralPort})]]
    /\ stackEof = [s \in Stacks |-> 0]
    /\ stackOnce = [s \in Stacks |-> "new"]
    /\ stackIn = [s \in Stacks |-> << >>]
    /\ stackOut = [s \in Stacks |-> << >>]
    /\ demuxPc = [s \in Stacks |-> "loop"]
    /\ demuxPkt = [s \in Stacks |-> NoPacket]
    /\ demuxPort = [s \in Stacks |-> NoPort]
    /\ panicked = FALSE
    /\ portEof = [p \in PortIds |-> 0]
    /\ portOnce = [p \in PortIds |-> "new"]
    /\ rd = [p \in PortIds |-> NoDeadline]
    /\ wd = [p \in PortIds |-> NoDeadline]
    /\ muxPkt = [p \in PortIds |-> NoPacket]
    /\ InitCalls /\ InitLink /\ InitRouter /\ InitHist

(***************************************************************************)
(* SpecConnect: TCPConn.Connect on the port of a dial, with or without a   *)
(* deadline in the context, under the packets that may answer the SYN, the *)
(* timers, and a Close of the port by another goroutine.                   *)
(***************************************************************************)
ConnectLocal == AddrPortFrom(ClientIP4, firstEphemeralPort)
ConnectRemote == AddrPortFrom(ServerIP4, 80)
ConnectDialed == NewPortAddr(ConnectLocal, IPProtocolTCP, ConnectRemote)
ConnectFlags == {TCPFlagSYN + TCPFlagACK, TCPFlagRST, TCPFlagACK}
ConnectPackets ==
    {NewPacket(linuxDefaultTTL - 1, ConnectRemote, ConnectLocal, IPProtocolTCP, f, << >>) :
        f \in ConnectFlags}

\* The state after ns.dial(IPProtocolTCP, "s4:80") of the client and NewTCPConn(port),
\* for either TCPConn.
InitConnect ==
    /\ InitOpened(<<[stack |-> "client", addr |-> ConnectDialed]>>)
    /\ tcpPkg \in TCPPackages
    /\ InitTcp /\ InitObs

NextConnect ==
    \/ \E ctx \in ContextDeadlines : ConnectBegin(1, ctx)
    \/ ConnectSyn(1)
    \/ ConnectSynDone(1)
    \/ ConnectDecide(1)
    \/ InitOnceDeferred(1)
    \/ WritePacketSend(1)
    \/ WritePacketEof(1)
    \/ WritePacketDeadline(1)
    \/ WritePacketPark(1)
    \/ MuxRecv(1)
    \/ MuxPortEof(1)
    \/ MuxPark(1)
    \/ MuxForward(1)
    \/ ReadPacketRecv(1)
    \/ ReadPacketEof(1)
    \/ ReadPacketDeadline(1)
    \/ ReadPacketPark(1)
    \/ ReadDeadlineFire(1)
    \/ WriteDeadlineFire(1)
    \/ DemuxRecv("client")
    \/ DemuxDeliverPortEof("client")
    \/ DemuxDeliverSend("client")
    \/ DemuxDeliverPark("client")
    \/ \E pkt \in ConnectPackets : DeviceSend("client", pkt)
    \/ PortCloseBegin(1, 1)
    \/ PortCloseClosePort(1, 1)
    \/ PortCloseCloseEof(1, 1)
    \/ PortCloseDeadlines(1, 1)

SpecConnect == InitConnect /\ [][NextConnect]_vars

\* What Connect returns for what its WritePacket and its ReadPacket returned.
ConnectContract(p) ==
    /\ synSent[p] <= 1
    /\ IF synSent[p] = 0
       THEN connErr[p] \in {"ErrClosed", "ErrDeadlineExceeded"} /\ connFirst[p] = NoFirst
       ELSE IF connFirst[p].err # "nil"
       THEN connErr[p] = connFirst[p].err
            /\ connErr[p] \in {"ErrClosed", "ErrDeadlineExceeded"}
       ELSE IF connFirst[p].flags = TCPFlagSYN + TCPFlagACK THEN connErr[p] = "nil"
       ELSE IF connFirst[p].flags = TCPFlagRST THEN connErr[p] = "ECONNREFUSED"
       ELSE connErr[p] = "ECONNABORTED"

\* C8: TCPConn.Connect sends exactly one SYN and decides by the first packet it
\* reads from its port: flags exactly SYN|ACK make it return success, flags
\* exactly RST make it fail with ECONNREFUSED, any other flags make it fail with
\* ECONNABORTED; a write or read failure (CLOSED, TIMEDOUT) is returned as is.
C8_ConnectDecides ==
    \A p \in PortIds : connPc[p] = "done" => ConnectContract(p)

\* Connect returned ECONNREFUSED after it read an RST.
C8_Witness ==
    \E p \in PortIds :
        /\ connPc[p] = "done" /\ connErr[p] = "ECONNREFUSED"
        /\ connFirst[p] = [err |-> "nil", flags |-> TCPFlagRST]

(***************************************************************************)
(* SpecRead: TCPConn.Read on an established connection, with buffers of    *)
(* zero, one and two bytes, under data packets, a FIN, an RST and a read   *)
(* deadline.                                                               *)
(***************************************************************************)
\* Payload bytes a run receives, at most.
MaxBytes == 3
ReadLens == {0, 1, 2}
ReadPayloads == {<<1>>, <<2, 3>>}
ReadPacket(flags, payload) ==
    NewPacket(linuxDefaultTTL - 1, ConnectRemote, ConnectLocal, IPProtocolTCP, flags, payload)
ReadPackets ==
    {ReadPacket(0, b) : b \in ReadPayloads}
        \cup {ReadPacket(TCPFlagFIN, << >>), ReadPacket(TCPFlagRST, << >>)}

\* The state after a dial of ("tcp", "s4:80") of the client returned its TCPConn.
InitEstablished ==
    /\ InitOpened(<<[stack |-> "client", addr |-> ConnectDialed]>>)
    /\ connPc = [p \in PortIds |-> IF p = 1 THEN "done" ELSE "idle"]
    /\ connErr = [p \in PortIds |-> IF p = 1 THEN "nil" ELSE "none"]
    /\ connCtx = [p \in PortIds |-> FALSE]
    /\ connBuf = [p \in PortIds |-> << >>]
    /\ readPc = [p \in PortIds |-> "idle"]
    /\ readLen = [p \in PortIds |-> 0]
    /\ readRes = [p \in PortIds |-> NoReadRes]
    /\ acceptPc = [p \in PortIds |-> "idle"]
    /\ acceptPkt = [p \in PortIds |-> NoPacket]
    /\ acceptConn = [p \in PortIds |-> NoPort]
    /\ acceptRes = [p \in PortIds |-> NoAcceptRes]
    /\ tcpClosePc = [p \in PortIds |-> "idle"]
    /\ rdCaller = [p \in PortIds |-> "none"]
    /\ wrCaller = [p \in PortIds |-> "none"]
    /\ lateDeadline = [p \in PortIds |-> {}]
    /\ synSent = [p \in PortIds |-> IF p = 1 THEN 1 ELSE 0]
    /\ connFirst = [p \in PortIds |->
                       IF p = 1 THEN [err |-> "nil", flags |-> TCPFlagSYN + TCPFlagACK]
                       ELSE NoFirst]
    /\ arrived = [p \in PortIds |-> << >>]
    /\ returned = [p \in PortIds |-> << >>]
    /\ InitUser

InitRead == InitEstablished /\ tcpPkg = "netstack"

\* The bytes in flight to the reader of p and those it received.
BytesSent(p) ==
    Len(arrived[p]) + Len(demuxPkt[portStack[p]].Payload)
        + (IF Len(stackIn[portStack[p]]) >= 1 THEN Len(stackIn[portStack[p]][1].Payload) ELSE 0)
        + (IF Len(stackIn[portStack[p]]) >= 2 THEN Len(stackIn[portStack[p]][2].Payload) ELSE 0)

\* A packet of the peer arrives, within the bound on the bytes of a run.
ReadArrives(pkt) ==
    /\ BytesSent(1) + Len(pkt.Payload) <= MaxBytes
    /\ DeviceSend("client", pkt)

NextRead ==
    \/ \E n \in ReadLens : ReadBegin(1, n)
    \/ ReadBuf(1)
    \/ ReadPacketDone(1)
    \/ ReadReturn(1)
    \/ ReadPacketRecv(1)
    \/ ReadPacketDeadline(1)
    \/ ReadPacketPark(1)
    \/ \E t \in {"zero", "past"} : SetReadDeadline(1, t)
    \/ DemuxRecv("client")
    \/ DemuxDeliverSend("client")
    \/ DemuxDeliverPark("client")
    \/ \E pkt \in ReadPackets : ReadArrives(pkt)

SpecRead == InitRead /\ [][NextRead]_vars

IsPrefix(a, b) == Len(a) <= Len(b) /\ SubSeq(b, 1, Len(a)) = a

\* C10: TCPConn.Read returns the payload bytes of the received packets in arrival
\* order, without loss or duplication, draining the buffered bytes before it
\* reads another packet; a packet with FIN makes Read return EOF and a packet
\* with RST makes it return ECONNRESET, and only after every byte received
\* before that packet has been returned.
C10_ReadInOrder ==
    \A p \in PortIds :
        /\ IsPrefix(returned[p], arrived[p])
        /\ arrived[p] = returned[p] \o connBuf[p]
        /\ readPc[p] = "packet" => connBuf[p] = << >>
        /\ readPc[p] = "done" /\ readRes[p].err \in {"EOF", "ECONNRESET"} =>
              returned[p] = arrived[p]

\* Read returned EOF on a FIN after it had returned three received bytes.
C10_Witness ==
    \E p \in PortIds :
        /\ readPc[p] = "done" /\ readRes[p].err = "EOF"
        /\ Len(returned[p]) = MaxBytes /\ returned[p] = arrived[p]

(***************************************************************************)
(* SpecReadWait: TCPConn.Read of either package on an established          *)
(* connection while the read deadline is set, its timer fires and the port *)
(* is closed.                                                              *)
(***************************************************************************)
InitReadWait == InitEstablished /\ tcpPkg \in TCPPackages

ReadWaitPackets == {ReadPacket(0, <<1>>)}

NextReadWait ==
    \/ ReadBegin(1, 1)
    \/ ReadBuf(1)
    \/ ReadPacketDone(1)
    \/ ReadReturn(1)
    \/ ReadPacketRecv(1)
    \/ ReadPacketEof(1)
    \/ ReadPacketDeadline(1)
    \/ ReadPacketPark(1)
    \/ \E t \in DeadlineTimes : SetReadDeadline(1, t)
    \/ ReadDeadlineFire(1)
    \/ PortCloseBegin(1, 1)
    \/ PortCloseClosePort(1, 1)
    \/ PortCloseCloseEof(1, 1)
    \/ PortCloseDeadlines(1, 1)
    \/ MuxPortEof(1)
    \/ MuxPark(1)
    \/ DemuxRecv("client")
    \/ DemuxDeliverPortEof("client")
    \/ DemuxDeliverSend("client")
    \/ DemuxDeliverPark("client")
    \/ \E pkt \in ReadWaitPackets : ReadArrives(pkt)

SpecReadWait == InitReadWait /\ [][NextReadWait]_vars

\* C11: TCPConn.Read returns TIMEDOUT when the read deadline expires while it
\* waits and CLOSED when the port is closed while it waits; in neither case does
\* it return zero bytes with a nil error.
C11_ReadFails ==
    \A p \in PortIds :
        readPc[p] = "done" /\ readRes[p].n = 0 =>
            /\ readRes[p].err # "nil"
            /\ rdRes[p].err = "ErrDeadlineExceeded" => readRes[p].err = "ErrDeadlineExceeded"
            /\ rdRes[p].err = "ErrClosed" => readRes[p].err = "ErrClosed"

\* Read of package netstack returned CLOSED after the port was closed.
C11_Witness ==
    \E p \in PortIds :
        /\ tcpPkg = "netstack" /\ portEof[p] > 0
        /\ readPc[p] = "done" /\ readRes[p].n = 0 /\ readRes[p].err = "ErrClosed"

(***************************************************************************)
(* SpecConnClose: TCPConn.Close on an established connection of a stack    *)
(* that nothing drains (no router reads its output), while the user writes *)
(* to the connection, sets the write deadline and closes the stack.        *)
(***************************************************************************)
ConnClosePayloads == {<<1>>}

\* TCPConn.Write of the user: Port.WritePacket(data, 0, netip.AddrPort{}).
ConnCloseWrite(b) == tcpClosePc[1] = "idle" /\ WritePacketBegin(1, b, 0, NoAddrPort)

\* The steps of the goroutine that calls Write and Close on the connection.
ConnCloseCaller ==
    \/ WritePacketReturn(1)
    \/ WritePacketSend(1)
    \/ WritePacketDeadline(1)
    \/ WritePacketPark(1)
    \/ TCPConnCloseFin(1)
    \/ TCPConnCloseReturn(1)
    \/ PortCloseClosePort(1, 1)
    \/ PortCloseCloseEof(1, 1)
    \/ PortCloseDeadlines(1, 1)

\* The steps of muxOutgoingTraffic of the port.
ConnCloseMux ==
    \/ MuxRecv(1)
    \/ MuxPortEof(1)
    \/ MuxStackEof(1)
    \/ MuxPark(1)
    \/ MuxForward(1)

NextConnClose ==
    \/ \E b \in ConnClosePayloads : ConnCloseWrite(b)
    \/ \E t \in DeadlineTimes : SetWriteDeadline(1, t)
    \/ WriteDeadlineFire(1)
    \/ TCPConnCloseBegin(1)
    \/ StackCloseBegin("client", 1)
    \/ StackCloseCloseEof("client", 1)
    \/ ConnCloseCaller
    \/ ConnCloseMux

SpecConnClose == InitReadWait /\ [][NextConnClose]_vars
\* Every goroutine that can take a step eventually takes one; the user need not
\* call and the stack need not be closed.
SpecConnCloseFair ==
    /\ SpecConnClose
    /\ WF_vars(ConnCloseCaller) /\ WF_vars(ConnCloseMux)
    /\ WF_vars(WriteDeadlineFire(1)) /\ WF_vars(StackCloseCloseEof("client", 1))

\* TCPConn.Close is in progress on p; it returned.
Closing(p) == tcpClosePc[p] \in {"fin", "portClose"}
CloseReturned(p) == tcpClosePc[p] = "done" /\ portEof[p] > 0
\* The FIN of the Close of p is in the output of its stack.
FinSent(p) ==
    \E i \in 1..Len(stackOut[portStack[p]]) :
        /\ stackOut[portStack[p]][i].Flags = TCPFlagFIN
        /\ stackOut[portStack[p]][i].SrcPort = portAddr[p].LocalAddr.port

\* C12: TCPConn.Close always returns: it attempts to send one FIN, swallows a
\* failure of that send, and then closes the underlying port; this holds in every
\* reachable state, including after the owning stack was closed and when the
\* output queue of the stack is full and nobody drains it.
C12_CloseReturns == \A p \in PortIds : Closing(p) ~> CloseReturned(p)

\* Close returned with its FIN in the output of the stack.
C12_Witness == \E p \in PortIds : CloseReturned(p) /\ FinSent(p)

(***************************************************************************)
(* SpecRouter: the router with a chain of filters; the client posts        *)
(* datagrams on its output, readLoop handles them and the stacks read      *)
(* their inputs.  No stack has a port.                                     *)
(***************************************************************************)
\* Filters a run adds to the chain.
MaxFilters == 2

RouterFilters == [target : {"CONTINUE", "DROP"}, inject : {<< >>, <<0, linuxDefaultTTL>>}]
RouterSource == AddrPortFrom(ClientIP4, 1000)
RouterPackets ==
    {NewPacket(ttl, RouterSource, AddrPortFrom(ip, 53), IPProtocolUDP, 0, << >>) :
        ttl \in {0, 1}, ip \in {ServerIP4, IPv4Unspecified}}

RouterAddFilter(f) == Len(filters) < MaxFilters /\ AddFilter(f)

\* A stack posts pkt on its output: ns.output <- pkt.
StackOutput(s, pkt) ==
    /\ ~panicked
    /\ Len(stackOut[s]) < ChanCap
    /\ stackOut' = [stackOut EXCEPT ![s] = Append(@, pkt)]
    /\ UNCHANGED <<ports, nextport, stackEof, stackOnce, stackIn, demuxPc, demuxPkt,
                   demuxPort, panicked, portVars, callVars, upperVars, histVars>>

\* The client posts one packet at a time: the next one once readLoop took the last.
RouterPost(pkt) ==
    /\ stackOut["client"] = << >> /\ routerPc["client"] = "loop"
    /\ StackOutput("client", pkt)

NextRouter ==
    \/ \E f \in RouterFilters : RouterAddFilter(f)
    \/ \E pkt \in RouterPackets : RouterPost(pkt)
    \/ RouterRecv("client")
    \/ RouterHandle("client")
    \/ \E s \in Stacks : DemuxRecv(s)

SpecRouter == Init /\ [][NextRouter]_vars

\* The calls of route of the last handle.
Routes == {i \in 1..Len(handled) : handled[i].what = "route"}
\* Its calls of filters, and its calls of route for the packets of filter j (for
\* the original packet when j = 0), in the order they were made.
IsFilterCall(e) == e.what = "filter"
FilterCalls == SelectSeq(handled, IsFilterCall)
RoutesFrom(j) == {i \in Routes : handled[i].from = j}
\* The filter that was called last before event i.
FilterBefore(i) ==
    LET F == {k \in 1..(i - 1) : handled[k].what = "filter"}
    IN  IF F = {} THEN 0 ELSE handled[CHOOSE k \in F : \A m \in F : m <= k].from

\* C13: every packet the router delivers to a device, original or injected, has
\* a TTL exactly one less than it had when the router started routing it; a
\* packet whose TTL is 0 is never delivered and its TTL is never decremented
\* below 0 (no wrap-around of the 8-bit field).
C13_TTLDecrement ==
    \A i \in Routes :
        /\ handled[i].err = "nil" =>
              /\ handled[i].entry.TTL > 0
              /\ handled[i].pkt.TTL = handled[i].entry.TTL - 1
        /\ handled[i].entry.TTL = 0 =>
              handled[i].err = "errTTLExceeded" /\ handled[i].pkt.TTL = 0
        /\ handled[i].pkt.TTL <= handled[i].entry.TTL

\* One handle delivered the original packet and an injected packet, each with its
\* TTL decremented, and refused an injected packet whose TTL was 0.
C13_Witness ==
    /\ \E i \in Routes :
          handled[i].from = 0 /\ handled[i].err = "nil" /\ handled[i].pkt.TTL = 0
    /\ \E i \in Routes :
          /\ handled[i].from > 0 /\ handled[i].err = "nil"
          /\ handled[i].pkt.TTL = linuxDefaultTTL - 1
          /\ Head(stackIn["client"]) = handled[i].pkt
    /\ \E i \in Routes :
          handled[i].from > 0 /\ handled[i].entry.TTL = 0 /\ handled[i].err = "errTTLExceeded"

\* The last handle, which took the copy chain of the filters for the packet pkt,
\* called the filters in the order of the chain up to the first DROP, routed what
\* each of them injected before it called the next, and routed the original last
\* and once if and only if no filter returned DROP.
ChainHandled(chain, pkt) ==
    LET k == Len(FilterCalls)
        dropped == k > 0 /\ FilterCalls[k].target = "DROP"
    IN  /\ k <= Len(chain)
        /\ \A j \in 1..k :
              /\ FilterCalls[j].from = j
              /\ FilterCalls[j].target = chain[j].target
              /\ j < k => FilterCalls[j].target # "DROP"
              /\ Cardinality(RoutesFrom(j)) = Len(Filter(chain[j], pkt).inject)
              /\ \A i \in RoutesFrom(j) :
                    /\ FilterBefore(i) = j
                    /\ \E x \in 1..Len(Filter(chain[j], pkt).inject) :
                          handled[i].entry = Filter(chain[j], pkt).inject[x]
        /\ \A i \in Routes : handled[i].from \in 0..k
        /\ dropped => RoutesFrom(0) = {}
        /\ ~dropped =>
              /\ k = Len(chain)
              /\ RoutesFrom(0) = {Len(handled)}
              /\ handled[Len(handled)].entry = pkt

\* C14: when some filter of the chain returns DROP for a packet, the original
\* packet is never routed and no later filter of the chain is invoked for it,
\* while the packets injected by every filter that ran, including the dropping
\* one, are routed; when no filter returns DROP the original is routed exactly
\* once after all filters ran, in the order the filters were added.
C14_FilterChain == handled # << >> => ChainHandled(handled[1].chain, handled[1].pkt)

\* A chain of two filters that both inject: the second returned DROP, the packets
\* of both were routed and the original was not.
C14_Witness ==
    /\ Len(FilterCalls) = 2
    /\ FilterCalls[1].target = "CONTINUE" /\ FilterCalls[2].target = "DROP"
    /\ Cardinality(RoutesFrom(1)) = 2 /\ Cardinality(RoutesFrom(2)) = 2
    /\ RoutesFrom(0) = {}

\* The packets the filters that ran injected, all together.
RECURSIVE InjectedBy(_, _, _)
InjectedBy(chain, pkt, k) ==
    IF k = 0 THEN 0 ELSE InjectedBy(chain, pkt, k - 1) + Len(Filter(chain[k], pkt).inject)

\* The last handle, for the chain and the packet it took: every call of a filter was
\* for that packet, no filter was called twice, and route was called at most once
\* for that packet and once for each packet the filters that ran injected.
NoReentry(chain, pkt) ==
    /\ \A j \in 1..Len(FilterCalls) : FilterCalls[j].pkt = pkt
    /\ \A j, k \in 1..Len(FilterCalls) : FilterCalls[j].from = FilterCalls[k].from => j = k
    /\ Len(FilterCalls) <= Len(chain)
    /\ Cardinality(RoutesFrom(0)) <= 1
    /\ \A i \in RoutesFrom(0) : handled[i].entry = pkt
    /\ Cardinality(Routes \ RoutesFrom(0)) = InjectedBy(chain, pkt, Len(FilterCalls))
    /\ Len(handled) = 1 + Len(FilterCalls) + Cardinality(Routes)

\* C33: a packet that a filter injects is routed directly and is never passed to a
\* filter of the chain: for every incoming packet the router calls each filter at
\* most once and routes at most the original and the injected packets, also when a
\* filter injects for every packet it sees.
C33_InjectedNotFiltered == handled # << >> => NoReentry(handled[1].chain, handled[1].pkt)

\* A chain of two filters that inject two packets each and let the packet pass: two
\* calls of filters and five calls of route.
C33_Witness ==
    /\ Len(FilterCalls) = 2
    /\ FilterCalls[1].target = "CONTINUE" /\ FilterCalls[2].target = "CONTINUE"
    /\ Cardinality(RoutesFrom(1)) = 2 /\ Cardinality(RoutesFrom(2)) = 2
    /\ Cardinality(Routes) = 5

(***************************************************************************)
(* SpecFifo: a datagram port of the client connected to a datagram port of *)
(* the server, both stacks attached to the router and routed.  The user of *)
(* the client port writes packets whose payloads are 1, 2, ... and the     *)
(* user of the server port reads.                                          *)
(***************************************************************************)
\* Packets a run writes.
MaxWrites == 5

FifoDialed ==
    NewPortAddr(AddrPortFrom(ClientIP4, firstEphemeralPort), IPProtocolUDP,
                AddrPortFrom(ServerIP4, 53))
FifoListener == NewPortAddr(AddrPortFrom(ServerIP4, 53), IPProtocolUDP, NoAddrPort)

\* The state after DialContext("udp", "s4:53") of the client returned port 1 and
\* ListenPacket("udp", "s4:53") of the server returned port 2.
InitFifo ==
    /\ InitOpened(<<[stack |-> "client", addr |-> FifoDialed],
                    [stack |-> "server", addr |-> FifoListener]>>)
    /\ tcpPkg = "netstack"
    /\ InitTcp /\ InitObs

\* The number in the payload b, 0 when it is empty.
SeqOf(b) == IF b = << >> THEN 0 ELSE b[1]

\* The user of port 1 writes the next packet.
FifoWrite ==
    /\ SeqOf(lastPut[1]) < MaxWrites
    /\ WritePacketBegin(1, <<SeqOf(lastPut[1]) + 1>>, 0, NoAddrPort)

NextFifo ==
    \/ FifoWrite
    \/ WritePacketReturn(1)
    \/ WritePacketSend(1)
    \/ WritePacketPark(1)
    \/ MuxRecv(1)
    \/ MuxPark(1)
    \/ MuxForward(1)
    \/ RouterRecv("client")
    \/ RouterHandle("client")
    \/ DemuxRecv("server")
    \/ DemuxDeliverSend("server")
    \/ DemuxDeliverPark("server")
    \/ ReadPacketBegin(2)
    \/ ReadPacketReturn(2)
    \/ ReadPacketRecv(2)
    \/ ReadPacketPark(2)

SpecFifo == InitFifo /\ [][NextFifo]_vars

\* ReadPacket of the user of p has a packet to return.
HasPacket(p) == rdPc[p] = "done" /\ rdCaller[p] = "user" /\ rdRes[p].err = "nil"

\* C15: packets that one port writes toward one destination port are delivered to
\* the reader of the destination port in the order they were written: along port
\* output, stack mux, router and destination demux a packet may be dropped but
\* packets are never reordered or duplicated.
C15_Fifo ==
    \A p \in PortIds :
        HasPacket(p) =>
            /\ SeqOf(rdRes[p].pkt.Payload) > SeqOf(lastGot[p])
            /\ SeqOf(rdRes[p].pkt.Payload) <= SeqOf(lastPut[1])

\* The reader got a packet and now gets the packet written two writes later: the
\* packet between them was dropped on the way.
C15_Witness ==
    \E p \in PortIds :
        /\ HasPacket(p) /\ SeqOf(lastGot[p]) > 0
        /\ SeqOf(rdRes[p].pkt.Payload) = SeqOf(lastGot[p]) + 2

(***************************************************************************)
(* SpecPoison: the datagram ports of SpecFifo, a DNSPoisoner on the router *)
(* that answers for dns.google with 10.0.0.1, and behind the port of the   *)
(* server a Database that answers with 8.8.8.8.  The client sends one      *)
(* query, for dns.google or for a name the poisoner does not know, and     *)
(* reads; the server reads a query, answers its sender and reads again.    *)
(***************************************************************************)
CensorDatabase == AddAddressesTo(NewDatabase, <<"dns.google">>, <<"10.0.0.1">>)
ServerDatabase ==
    AddAddressesTo(AddAddressesTo(NewDatabase, <<"dns.google">>, <<"8.8.8.8">>),
                   <<"example.com">>, <<"8.8.4.4">>)

QueryFor(name) ==
    Pack(NewMsg(1, FALSE, OpcodeQuery, RcodeSuccess, <<NewQuestion(name, TypeA, ClassINET)>>,
                << >>))
ReplyWith(name, addr) ==
    Pack(NewMsg(1, TRUE, OpcodeQuery, RcodeSuccess, <<NewQuestion(name, TypeA, ClassINET)>>,
                <<NewRR(name, TypeA, addr)>>))
PoisonedQuery == QueryFor("dns.google.")
SpoofedReply == ReplyWith("dns.google.", "10.0.0.1")
LegitimateReply == ReplyWith("dns.google.", "8.8.8.8")

\* scenario.Router().AddFilter(censor.NewDNSPoisoner(censorDB)).
PoisonAddFilter ==
    /\ filters = << >>
    /\ AddFilter(NewDNSPoisoner(CensorDatabase, {}))

\* The client sends its query through the filter.
PoisonQuery ==
    /\ filters # << >>
    /\ lastPut[1] = << >>
    /\ \E name \in {"dns.google.", "example.com."} :
          WritePacketBegin(1, QueryFor(name), 0, NoAddrPort)

\* The server has read a query that it has not answered.
QueryPending == rdPc[2] = "idle" /\ rdRes[2].err = "nil" /\ lastPut[2] = << >>

\* The server of DNS over UDP: ReadFrom, then Handle writes to the sender.
PoisonServerRead == ~QueryPending /\ ReadPacketBegin(2)
PoisonServerAnswer ==
    /\ QueryPending
    /\ HandleQuery(ServerDatabase, rdRes[2].pkt.Payload).wrote
    /\ WritePacketBegin(2, HandleQuery(ServerDatabase, rdRes[2].pkt.Payload).resp, 0,
                        AddrPortFrom(rdRes[2].pkt.SrcAddr, rdRes[2].pkt.SrcPort))

\* The goroutines of a port and of its calls, and those of a stack and of the
\* router for the device of the stack.
PoisonPort(p) ==
    \/ WritePacketSend(p) \/ WritePacketPark(p) \/ WritePacketReturn(p)
    \/ MuxRecv(p) \/ MuxPark(p) \/ MuxForward(p)
    \/ ReadPacketRecv(p) \/ ReadPacketPark(p) \/ ReadPacketReturn(p)
PoisonStack(s) ==
    \/ RouterRecv(s) \/ RouterHandle(s)
    \/ DemuxRecv(s) \/ DemuxDeliverSend(s) \/ DemuxDeliverPark(s)

NextPoison ==
    \/ PoisonAddFilter
    \/ PoisonQuery
    \/ ReadPacketBegin(1)
    \/ PoisonServerRead
    \/ PoisonServerAnswer
    \/ \E p \in {1, 2} : PoisonPort(p)
    \/ \E s \in Stacks : PoisonStack(s)

SpecPoison == InitFifo /\ [][NextPoison]_vars

\* Every goroutine that can take a step eventually takes one, and the two users
\* go on reading.
PoisonFairness ==
    /\ \A p \in {1, 2} : WF_vars(PoisonPort(p))
    /\ \A s \in Stacks : WF_vars(PoisonStack(s))
    /\ WF_vars(ReadPacketBegin(1)) /\ WF_vars(PoisonServerRead) /\ WF_vars(PoisonServerAnswer)

SpecPoisonFair == SpecPoison /\ PoisonFairness

DeadlinePayloads == {<<1>>}

NextDeadline ==
    \/ \E t \in DeadlineTimes : SetReadDeadline(1, t)
    \/ \E t \in DeadlineTimes : SetWriteDeadline(1, t)
    \/ \E t \in DeadlineTimes : SetDeadline(1, t)
    \/ ReadDeadlineFire(1)
    \/ WriteDeadlineFire(1)
    \/ ReadPacketBegin(1)
    \/ ReadPacketReturn(1)
    \/ ReadPacketEof(1)
    \/ ReadPacketDeadline(1)
    \/ ReadPacketPark(1)
    \/ \E b \in DeadlinePayloads : WritePacketBegin(1, b, 0, NoAddrPort)
    \/ WritePacketReturn(1)
    \/ WritePacketSend(1)
    \/ WritePacketEof(1)
    \/ WritePacketDeadline(1)
    \/ WritePacketPark(1)
    \/ MuxRecv(1)
    \/ MuxPortEof(1)
    \/ MuxPark(1)
    \/ MuxForward(1)
    \/ PortCloseBegin(1, 1)
    \/ PortCloseClosePort(1, 1)
    \/ PortCloseCloseEof(1, 1)
    \/ PortCloseDeadlines(1, 1)

SpecDeadline == InitFifo /\ [][NextDeadline]_vars

\* The last Set of deadline d was at the zero time, and d is as Set left it: the
\* channel is open and no timer is there to close it.
OpenAfterZero(last, d) == last = "zero" => ~d.closed /\ d.timer = "nil"

\* ReadPacket of p returns ErrDeadlineExceeded in this step.
ReadTimesOut(p) ==
    rdPc[p] # "done" /\ rdPc'[p] = "done" /\ rdRes'[p].err = "ErrDeadlineExceeded"

\* WritePacket of p returns ErrDeadlineExceeded in this step.
WriteTimesOut(p) ==
    wrPc[p] # "done" /\ wrPc'[p] = "done" /\ wrRes'[p] = "ErrDeadlineExceeded"

\* C16: after deadline.Set(zero time) returned, the wait channel of the deadline
\* is open and stays open until a later Set with a non-zero time, whatever
\* deadlines were set, pending or fired before; no ReadPacket or WritePacket
\* fails with ErrDeadlineExceeded while the zero time is the last time set.
C16_ZeroDeadline ==
    /\ [](\A p \in PortIds :
            /\ OpenAfterZero(lastSet[p].rd, rd[p])
            /\ OpenAfterZero(lastSet[p].wd, wd[p]))
    /\ [][\A p \in PortIds :
            /\ lastSet'[p].rd = "zero" => ~ReadTimesOut(p)
            /\ lastSet'[p].wd = "zero" => ~WriteTimesOut(p)]_vars

\* The user set both deadlines to the zero time, and ReadPacket and WritePacket
\* of the open port wait.
C16_Witness ==
    \E p \in PortIds :
        /\ portOnce[p] = "new"
        /\ lastSet[p] = [rd |-> "zero", wd |-> "zero"]
        /\ rdPc[p] = "parked" /\ wrPc[p] = "parked"

(***************************************************************************)
(* SpecPortInput: packets are sent on the input channels of a connected    *)
(* port and of a port with no remote address while the users of the ports  *)
(* read.                                                                   *)
(***************************************************************************)
\* The packets sent on the input of port p: from the remote address of the
\* connected port, from another port of the same host, and from another host.
InputPackets(p) ==
    {NewPacket(linuxDefaultTTL - 1, AddrPortFrom(ip, port), portAddr[p].LocalAddr,
               IPProtocolUDP, 0, b) :
        ip \in {ServerIP4, ServerIP6}, port \in {53, 54}, b \in {<<1>>, <<2>>}}

PortInput(p) == \E pkt \in InputPackets(p) : PortInputSend(p, pkt)

NextPortInput ==
    \/ \E p \in {1, 2} : ReadPacketBegin(p)
    \/ \E p \in {1, 2} : ReadPacketReturn(p)
    \/ \E p \in {1, 2} : ReadPacketPark(p)
    \/ \E p \in {1, 2} : ReadPacketDeadline(p)
    \/ \E p \in {1, 2}, t \in {"zero", "past"} : SetReadDeadline(p, t)
    \/ \E p \in {1, 2} : PortInput(p)

SpecPortInput == InitFifo /\ [][NextPortInput]_vars

\* The source of pkt is the remote address of p.
FromRemote(p, pkt) == AddrPortFrom(pkt.SrcAddr, pkt.SrcPort) = portAddr[p].RemoteAddr

\* C17: on a connected port ReadPacket never returns a packet whose source (IP
\* address and port) differs from the remote address of the port; a packet that
\* does not match is discarded and the read keeps waiting.
C17_SourceMatches ==
    \A p \in PortIds :
        HasPacket(p) /\ IsValid(portAddr[p].RemoteAddr) => FromRemote(p, rdRes[p].pkt)

\* ReadPacket of a port with no remote address returns a packet, and ReadPacket
\* of the connected port a packet of its remote address.
C17_Witness ==
    /\ \E p \in PortIds : HasPacket(p) /\ ~IsValid(portAddr[p].RemoteAddr)
    /\ \E p \in PortIds :
          HasPacket(p) /\ IsValid(portAddr[p].RemoteAddr) /\ FromRemote(p, rdRes[p].pkt)

(***************************************************************************)
(* SpecEphemeral: Listen and ListenPacket with port 0 and dials on the     *)
(* server, which ask for ephemeral ports, and Port.Close of the ports they *)
(* return; the counters start at the first ephemeral port or a few ports   *)
(* before the last port.                                                   *)
(***************************************************************************)
\* The values of ns.nextport[protocol] at the start of a run; a counter above
\* the first port stands for a stack whose earlier ports were all closed.
EphemeralStarts == {firstEphemeralPort, MaxUint16 - 2, MaxUint16 - 1}

InitEphemeral ==
    /\ ports = [s \in Stacks |-> EmptyTable]
    /\ \E np \in [{IPProtocolTCP, IPProtocolUDP} -> EphemeralStarts] :
          nextport = [s \in Stacks |-> np]
    /\ stackEof = [s \in Stacks |-> 0]
    /\ stackOnce = [s \in Stacks |-> "new"]
    /\ stackIn = [s \in Stacks |-> << >>]
    /\ stackOut = [s \in Stacks |-> << >>]
    /\ demuxPc = [s \in Stacks |-> "loop"]
    /\ demuxPkt = [s \in Stacks |-> NoPacket]
    /\ demuxPort = [s \in Stacks |-> NoPort]
    /\ panicked = FALSE
    /\ InitPorts /\ InitCalls /\ InitLink /\ InitRouter /\ InitHist /\ InitNoTcp

EphemeralListenAddrs == {AddrPortFrom(IPv6Unspecified, 0)}
EphemeralDialAddrs == {AddrPortFrom(ClientIP4, 80)}

NextEphemeral ==
    \/ \E a \in EphemeralListenAddrs : Listen("server", "tcp", a)
    \/ \E a \in EphemeralListenAddrs : ListenPacket("server", "udp", a)
    \/ \E a \in EphemeralDialAddrs : DialUDP("server", "udp", a)
    \/ \E a \in EphemeralDialAddrs : DialTCPPort("server", a)
    \/ \E p \in PortIds : PortCloseBegin(p, 1)
    \/ \E p \in PortIds : PortCloseClosePort(p, 1)
    \/ \E p \in PortIds : PortCloseCloseEof(p, 1)
    \/ \E p \in PortIds : PortCloseDeadlines(p, 1)

SpecEphemeral == InitEphemeral /\ [][NextEphemeral]_vars

\* The protocol of the ports that a call op opens.
ProtocolOf(op) == IF op \in {"Listen", "dialtcp"} THEN IPProtocolTCP ELSE IPProtocolUDP

\* A port of protocol pr with the local port n was handed out on stack s.
HandedOut(s, pr, n) ==
    \E p \in PortIds :
        /\ Allocated(p) /\ portStack[p] = s
        /\ portAddr[p].Protocol = pr /\ portAddr[p].LocalAddr.port = n

\* A call that asks for an ephemeral port returns in this step.
EphemeralCall == apiRes' # apiRes \/ nextId' # nextId

\* C18: per protocol the ephemeral ports handed out are the successive values of
\* the counter, which starts at 49152, grows by one with each port, is not
\* touched by the other protocol or by Port.Close and never wraps; EADDRINUSE for
\* exhaustion is returned only after port 65535 itself was handed out.
C18_Ephemeral ==
    /\ [](\A s \in Stacks : \A pr \in {IPProtocolTCP, IPProtocolUDP} :
            nextport[s][pr] \in firstEphemeralPort..MaxUint16)
    /\ [][LET pr == ProtocolOf(apiRes'.op)
              other == IF pr = IPProtocolTCP THEN IPProtocolUDP ELSE IPProtocolTCP
              n == nextport["server"][pr]
          IN  IF ~EphemeralCall THEN nextport' = nextport
              ELSE /\ nextport'["server"][other] = nextport["server"][other]
                   /\ apiRes'.err \in {"nil", "EADDRINUSE"}
                   /\ apiRes'.err = "nil" =>
                         /\ portAddr'[apiRes'.port].LocalAddr.port = n
                         /\ nextport'["server"][pr] = n + 1
                         /\ ~HandedOut("server", pr, n)
                   /\ apiRes'.err = "EADDRINUSE" =>
                         /\ nextport' = nextport
                         /\ HandedOut("server", pr, MaxUint16)]_vars

\* The counter of a protocol stands at 65535, port 65534 was handed out and
\* closed, and the call returned EADDRINUSE.
C18_Witness ==
    /\ apiRes.err = "EADDRINUSE"
    /\ nextport["server"][ProtocolOf(apiRes.op)] = MaxUint16
    /\ \E p \in PortIds :
          /\ Allocated(p) /\ portEof[p] > 0
          /\ portAddr[p].Protocol = ProtocolOf(apiRes.op)
          /\ portAddr[p].LocalAddr.port = MaxUint16 - 1

(***************************************************************************)
(* SpecDial: dials of the client, whose only address is an IPv4 address,   *)
(* and of the server, whose addresses are an IPv4 and an IPv6 address, to  *)
(* IPv4 and IPv6 destinations.                                             *)
(***************************************************************************)
DialDestinations == {AddrPortFrom(ClientIP4, 80), AddrPortFrom(ClientIP6, 80)}

NextDial ==
    \/ \E s \in Stacks, a \in DialDestinations : DialUDP(s, "udp", a)
    \/ \E s \in Stacks, a \in DialDestinations : DialTCPPort(s, a)
    \/ \E p \in PortIds : PortCloseBegin(p, 1)
    \/ \E p \in PortIds : PortCloseClosePort(p, 1)
    \/ \E p \in PortIds : PortCloseCloseEof(p, 1)
    \/ \E p \in PortIds : PortCloseDeadlines(p, 1)

SpecDial == Init /\ [][NextDial]_vars

\* The positions in the addresses of stack s of the addresses of the family of ip.
SameFamily(s, ip) == {i \in 1..Len(Addresses(s)) : Is4(Addresses(s)[i]) = Is4(ip)}

\* The first address of s of the family of ip when there is one, else the first
\* address of s.
PreferredLocal(s, ip) ==
    IF SameFamily(s, ip) # {}
    THEN Addresses(s)[CHOOSE i \in SameFamily(s, ip) : \A j \in SameFamily(s, ip) : i <= j]
    ELSE Addresses(s)[1]

\* C20: the source IP of a dial is the first local address of the family of the
\* destination when the stack has one, and the first local address only when it
\* has none; this for the address either version of Stack.dial picks.
C20_SourceFamily ==
    \A p \in PortIds :
        Allocated(p) /\ IsValid(portAddr[p].RemoteAddr) =>
            /\ portAddr[p].LocalAddr.ip
                  = PreferredLocal(portStack[p], portAddr[p].RemoteAddr.ip)
            /\ dialLocalAddrSameFamily(portStack[p], portAddr[p].RemoteAddr)
                  = PreferredLocal(portStack[p], portAddr[p].RemoteAddr.ip)

\* The server dialed an IPv4 destination from its IPv4 address, and the client,
\* which has no IPv6 address, an IPv6 destination from its first address.
C20_Witness ==
    /\ \E p \in PortIds :
          /\ Allocated(p) /\ portStack[p] = "server"
          /\ portAddr[p].RemoteAddr.ip = ClientIP4 /\ portAddr[p].LocalAddr.ip = ServerIP4
    /\ \E p \in PortIds :
          /\ Allocated(p) /\ portStack[p] = "client"
          /\ portAddr[p].RemoteAddr.ip = ClientIP6 /\ portAddr[p].LocalAddr.ip = ClientIP4

(***************************************************************************)
(* Package censor: what the filters test.                                  *)
(***************************************************************************)
\* bytes.Contains(b, sub).
bytesContains(b, sub) ==
    \E i \in 0..(Len(b) - Len(sub)) : SubSeq(b, i + 1, i + Len(sub)) = sub

\* The filter has a target and the packet is not for it.
TargetMisses(target, pkt) ==
    IsValid(target) /\ (pkt.DstAddr # target.ip \/ pkt.DstPort # target.port)

\* The filter has a pattern and the payload is empty or does not contain it.
PatternMisses(pattern, pkt) ==
    pattern # "nil" /\ (Len(pkt.Payload) <= 0 \/ ~bytesContains(pkt.Payload, pattern))

(***************************************************************************)
(* Blackholer.Filter: under the mutex it looks the five-tuple up and       *)
(* deletes an entry whose deadline has passed; it tests the target and the *)
(* pattern; under the mutex again it enters the five-tuple.                *)
(***************************************************************************)
\* NewBlackholer(duration, target, pattern).
NewBlackholer(duration, target, pattern) ==
    /\ ~bhConf.made
    /\ bhConf' = [made |-> TRUE, target |-> target, pattern |-> pattern,
                  duration |-> duration]
    /\ UNCHANGED <<now, blocked, bhPc, bhCall, bhHist>>

fiveTuple(pkt) ==
    [proto |-> pkt.IPProtocol, srcAddr |-> pkt.SrcAddr, srcPort |-> pkt.SrcPort,
     dstAddr |-> pkt.DstAddr, dstPort |-> pkt.DstPort]

\* A variant of BlackholerLookup that does not look the five-tuple up.
BlackholerLookupForgets(g, pkt) ==
    /\ bhConf.made
    /\ bhPc[g] = "idle"
    /\ blocked' = blocked
    /\ bhCall' = [bhCall EXCEPT ![g] =
                     [pkt |-> pkt, now |-> now,
                      target |-> IF \/ TargetMisses(bhConf.target, pkt)
                                    \/ PatternMisses(bhConf.pattern, pkt)
                                 THEN "ACCEPT" ELSE "none"]]
    /\ bhPc' = [bhPc EXCEPT ![g] =
                   IF bhCall'[g].target = "none" THEN "block" ELSE "done"]
    /\ UNCHANGED <<now, bhConf, bhHist>>

\* now := time.Now(); the first critical section; the tests of target and pattern.
BlackholerLookup(g, pkt) ==
    LET tuple == fiveTuple(pkt)
        ok == tuple \in DOMAIN blocked
        isBlocked == ok /\ now < blocked[tuple]
    IN  /\ bhConf.made
        /\ bhPc[g] = "idle"
        /\ blocked' = IF ok /\ ~isBlocked
                      THEN [u \in DOMAIN blocked \ {tuple} |-> blocked[u]]
                      ELSE blocked
        /\ bhCall' = [bhCall EXCEPT ![g] =
                         [pkt |-> pkt, now |-> now,
                          target |-> IF isBlocked THEN "DROP"
                                     ELSE IF \/ TargetMisses(bhConf.target, pkt)
                                             \/ PatternMisses(bhConf.pattern, pkt)
                                     THEN "ACCEPT"
                                     ELSE "none"]]
        /\ bhPc' = [bhPc EXCEPT ![g] =
                       IF bhCall'[g].target = "none" THEN "block" ELSE "done"]
        /\ UNCHANGED <<now, bhConf, bhHist>>

\* The second critical section: t.blocked[tuple] = now.Add(t.duration); return DROP.
BlackholerBlock(g) ==
    LET tuple == fiveTuple(bhCall[g].pkt)
    IN  /\ bhPc[g] = "block"
        /\ blocked' = [u \in DOMAIN blocked \cup {tuple} |->
                          IF u = tuple THEN bhCall[g].now + bhConf.duration
                          ELSE blocked[u]]
        /\ bhCall' = [bhCall EXCEPT ![g].target = "DROP"]
        /\ bhPc' = [bhPc EXCEPT ![g] = "done"]
        /\ UNCHANGED <<now, bhConf, bhHist>>

\* Filter returns to Router.handle.
BlackholerReturn(g) ==
    /\ bhPc[g] = "done"
    /\ bhHist' = Append(bhHist, bhCall[g])
    /\ bhCall' = [bhCall EXCEPT ![g] = NoFilterCall]
    /\ bhPc' = [bhPc EXCEPT ![g] = "idle"]
    /\ UNCHANGED <<now, bhConf, blocked>>

\* What the calls of the filters leave alone.
NetUnchanged ==
    UNCHANGED <<stackVars, portVars, callVars, linkVars, lastPut, lastGot, lastSet,
                routerVars, histVars, tcpVars, obsVars>>

\* What the calls of the Blackholer leave alone.
BlackholeUnchanged ==
    NetUnchanged /\ UNCHANGED <<filterVars, dnsVars, poolVars, wrapVars, dialVars, timerVars, geoVars>>

\* What the calls of the filters without state leave alone.
FilterUnchanged ==
    NetUnchanged /\ UNCHANGED <<censorVars, dnsVars, poolVars, wrapVars, dialVars, timerVars, geoVars>>

\* What the calls of the Database leave alone.
DatabaseUnchanged ==
    NetUnchanged /\ UNCHANGED <<censorVars, filterVars, poolVars, wrapVars, dialVars, timerVars, geoVars>>

\* What the calls of the Pool leave alone.
PoolUnchanged ==
    NetUnchanged /\ UNCHANGED <<censorVars, filterVars, dnsVars, wrapVars, dialVars, timerVars, geoVars>>

\* What the calls of sequentialDial leave alone.
DialUnchanged ==
    NetUnchanged /\ UNCHANGED <<censorVars, filterVars, dnsVars, poolVars, wrapVars, timerVars, geoVars>>

\* What the calls of deadline.Set and its timers leave alone.
DeadlineUnchanged ==
    NetUnchanged /\ UNCHANGED <<censorVars, filterVars, dnsVars, poolVars, wrapVars, dialVars,
                                geoVars>>

\* What the steps of geolink's forward and of its devices leave alone.
GeoUnchanged ==
    NetUnchanged /\ UNCHANGED <<censorVars, filterVars, dnsVars, poolVars, wrapVars, dialVars,
                                timerVars>>

\* What the calls of the connWrapper leave alone.
WrapUnchanged ==
    NetUnchanged /\ UNCHANGED <<censorVars, filterVars, dnsVars, poolVars, dialVars, timerVars, geoVars>>

(***************************************************************************)
(* SpecBlackhole: a Blackholer on the router; the readLoop of each device  *)
(* calls its Filter with the packets the device sends, those of a TLS      *)
(* connection of the client to the server and those the server sends back, *)
(* while time passes.                                                      *)
(***************************************************************************)
\* Calls of Filter in a run, and the ticks of the clock.
MaxCalls == 3
MaxTime == 3
\* The duration of the Blackholer, in ticks.
BlackholeDuration == 2

BlackholeTarget == AddrPortFrom(ServerIP4, 443)
BlackholePattern == <<1>>
BlackholeClient == AddrPortFrom(ClientIP4, firstEphemeralPort)

\* The packets a device sends: the client to the target, the server back to the
\* client, with a payload that contains the pattern and one that does not.
BlackholePackets(g) ==
    {NewPacket(linuxDefaultTTL, IF g = "client" THEN BlackholeClient ELSE BlackholeTarget,
               IF g = "client" THEN BlackholeTarget ELSE BlackholeClient,
               IPProtocolTCP, TCPFlagPSH, b) : b \in {<<1>>, <<2>>}}

BlackholeNew ==
    /\ \E target \in {NoAddrPort, BlackholeTarget}, pattern \in {"nil", BlackholePattern} :
          NewBlackholer(BlackholeDuration, target, pattern)
    /\ BlackholeUnchanged

BlackholeFilter(g) ==
    /\ Len(bhHist) + Cardinality({h \in Stacks : bhPc[h] # "idle"}) < MaxCalls
    /\ \E pkt \in BlackholePackets(g) : BlackholerLookup(g, pkt)
    /\ BlackholeUnchanged

BlackholeBlock(g) == BlackholerBlock(g) /\ BlackholeUnchanged

BlackholeReturn(g) == BlackholerReturn(g) /\ BlackholeUnchanged

\* Time passes.
Tick ==
    /\ now < MaxTime
    /\ now' = now + 1
    /\ UNCHANGED <<bhConf, blocked, bhPc, bhCall, bhHist>>
    /\ BlackholeUnchanged

NextBlackhole ==
    \/ BlackholeNew
    \/ \E g \in Stacks : BlackholeFilter(g)
    \/ \E g \in Stacks : BlackholeBlock(g)
    \/ \E g \in Stacks : BlackholeReturn(g)
    \/ Tick

SpecBlackhole == Init /\ [][NextBlackhole]_vars

\* The packet of call c is for the target of the Blackholer and has its pattern.
MatchesBlackholer(c) ==
    ~TargetMisses(bhConf.target, c.pkt) /\ ~PatternMisses(bhConf.pattern, c.pkt)

\* Call j of the history is a later call of the five-tuple of call i, before the
\* duration has passed since call i.
Within(i, j) ==
    /\ i < j
    /\ fiveTuple(bhHist[j].pkt) = fiveTuple(bhHist[i].pkt)
    /\ bhHist[j].now < bhHist[i].now + bhConf.duration

\* Call i is a match that the Blackholer recorded: no earlier recorded match of
\* its five-tuple still blocks it.
RECURSIVE Recorded(_)
Recorded(i) ==
    /\ MatchesBlackholer(bhHist[i])
    /\ ~\E k \in 1..(i - 1) : Recorded(k) /\ Within(k, i)

\* C21 (as stated): once a packet of five-tuple T matches the target and the
\* pattern at time t, it is dropped and every later packet of T handled before
\* t + duration is dropped whatever its payload; a packet is dropped only if it
\* matches or follows a match of its own five-tuple within the duration.
C21_Residual ==
    \A j \in 1..Len(bhHist) :
        /\ MatchesBlackholer(bhHist[j]) => bhHist[j].target = "DROP"
        /\ \A i \in 1..(j - 1) :
              MatchesBlackholer(bhHist[i]) /\ Within(i, j) => bhHist[j].target = "DROP"
        /\ bhHist[j].target = "DROP" =>
              \/ MatchesBlackholer(bhHist[j])
              \/ \E i \in 1..(j - 1) : MatchesBlackholer(bhHist[i]) /\ Within(i, j)

\* C21 (amended): the same for the matches at times t when the five-tuple is not
\* blocked, which are the ones the Blackholer records: a match while the
\* five-tuple is blocked is dropped and does not prolong the blocking.
C21_ResidualFromFirstMatch ==
    \A j \in 1..Len(bhHist) :
        /\ MatchesBlackholer(bhHist[j]) => bhHist[j].target = "DROP"
        /\ \A i \in 1..(j - 1) : Recorded(i) /\ Within(i, j) => bhHist[j].target = "DROP"
        /\ bhHist[j].target = "DROP" =>
              \/ MatchesBlackholer(bhHist[j])
              \/ \E i \in 1..(j - 1) : Recorded(i) /\ Within(i, j)

\* A packet without the pattern is dropped after a recorded match of its
\* five-tuple, and then a packet of the reverse five-tuple with the pattern, which
\* is not for the target, is accepted.
C21_Witness ==
    /\ bhConf.pattern # "nil" /\ IsValid(bhConf.target)
    /\ \E i, j, r \in 1..Len(bhHist) :
          /\ Recorded(i) /\ Within(i, j)
          /\ ~MatchesBlackholer(bhHist[j]) /\ bhHist[j].target = "DROP"
          /\ j < r /\ bhHist[r].pkt.SrcAddr = ServerIP4
          /\ bhHist[r].pkt.Payload = BlackholePattern /\ bhHist[r].target = "ACCEPT"

(***************************************************************************)
(* TCPResetter.Filter: it accepts every packet, and injects an RST from    *)
(* the destination of the packet to its source unless the packet is not    *)
(* TCP, is not for the target, or fails the test of the pattern.           *)
(***************************************************************************)
NewTCPResetter(target, pattern) ==
    /\ ~resetter.made
    /\ resetter' = [made |-> TRUE, target |-> target, pattern |-> pattern]
    /\ UNCHANGED <<natter, filterRes, forwarded>>

\* The RST that the TCPResetter injects for pkt.
ResetFor(pkt) ==
    [TTL |-> 64, SrcAddr |-> pkt.DstAddr, DstAddr |-> pkt.SrcAddr,
     IPProtocol |-> IPProtocolTCP, SrcPort |-> pkt.DstPort, DstPort |-> pkt.SrcPort,
     Flags |-> TCPFlagRST, Payload |-> << >>]

\* A variant of TCPResetterFilter that tests the payload against the pattern
\* without the test for an empty payload.
TCPResetterFilterNoEmptyTest(r, pkt) ==
    IF pkt.IPProtocol # IPProtocolTCP
    THEN [pkt |-> pkt, out |-> pkt, target |-> "ACCEPT", inject |-> << >>]
    ELSE IF TargetMisses(r.target, pkt)
    THEN [pkt |-> pkt, out |-> pkt, target |-> "ACCEPT", inject |-> << >>]
    ELSE IF r.pattern # "nil" /\ ~bytesContains(pkt.Payload, r.pattern)
    THEN [pkt |-> pkt, out |-> pkt, target |-> "ACCEPT", inject |-> << >>]
    ELSE [pkt |-> pkt, out |-> pkt, target |-> "ACCEPT", inject |-> <<ResetFor(pkt)>>]

TCPResetterFilter(r, pkt) ==
    IF pkt.IPProtocol # IPProtocolTCP
    THEN [pkt |-> pkt, out |-> pkt, target |-> "ACCEPT", inject |-> << >>]
    ELSE IF TargetMisses(r.target, pkt)
    THEN [pkt |-> pkt, out |-> pkt, target |-> "ACCEPT", inject |-> << >>]
    ELSE IF PatternMisses(r.pattern, pkt)
    THEN [pkt |-> pkt, out |-> pkt, target |-> "ACCEPT", inject |-> << >>]
    ELSE [pkt |-> pkt, out |-> pkt, target |-> "ACCEPT", inject |-> <<ResetFor(pkt)>>]

\* Router.handle calls the Filter of the TCPResetter with pkt.
ResetterCall(pkt) ==
    /\ resetter.made
    /\ filterRes' = TCPResetterFilter(resetter, pkt)
    /\ UNCHANGED <<resetter, natter, forwarded>>

(***************************************************************************)
(* SpecResetter: a TCPResetter of every configuration and the packets of   *)
(* a connection of the client: with and without payload, for the target    *)
(* and for another endpoint, TCP and UDP.                                  *)
(***************************************************************************)
ResetterTargets == {NoAddrPort, BlackholeTarget}
ResetterPatterns == {"nil", << >>, <<1>>}
ResetterPackets ==
    {NewPacket(linuxDefaultTTL, BlackholeClient, AddrPortFrom(ServerIP4, port), pr, fl, b) :
        port \in {443, 80}, pr \in {IPProtocolTCP, IPProtocolUDP},
        fl \in {TCPFlagSYN, TCPFlagSYN + TCPFlagACK, TCPFlagPSH},
        b \in {<< >>, <<1>>, <<2, 1>>, <<2>>}}

ResetterNew ==
    /\ \E target \in ResetterTargets, pattern \in ResetterPatterns :
          NewTCPResetter(target, pattern)
    /\ FilterUnchanged

ResetterFilter ==
    /\ \E pkt \in ResetterPackets : ResetterCall(pkt)
    /\ FilterUnchanged

NextResetter == ResetterNew \/ ResetterFilter

SpecResetter == Init /\ [][NextResetter]_vars

\* The last call of Filter was for a TCP packet with an empty payload.
EmptyTCP == filterRes.pkt.IPProtocol = IPProtocolTCP /\ filterRes.pkt.Payload = << >>

NewDNatter(source, target, repl) ==
    /\ ~natter.made
    /\ natter' = [made |-> TRUE, source |-> source, target |-> target, repl |-> repl]
    /\ UNCHANGED <<resetter, filterRes, forwarded>>

\* The two tests of DNatter.Filter.
ForwardMatch(r, pkt) ==
    pkt.SrcAddr = r.source /\ (pkt.DstAddr = r.target.ip /\ pkt.DstPort = r.target.port)

ReturnMatch(r, pkt) ==
    (pkt.SrcAddr = r.repl.ip /\ pkt.SrcPort = r.repl.port) /\ pkt.DstAddr = r.source

\* A variant of DNatterFilter that leaves the source port of a return packet.
DNatterFilterKeepsPort(r, pkt) ==
    IF ForwardMatch(r, pkt)
    THEN [pkt |-> pkt,
          out |-> [pkt EXCEPT !.DstAddr = r.repl.ip, !.DstPort = r.repl.port],
          target |-> "ACCEPT", inject |-> << >>]
    ELSE IF ReturnMatch(r, pkt)
    THEN [pkt |-> pkt,
          out |-> [pkt EXCEPT !.SrcAddr = r.target.ip],
          target |-> "ACCEPT", inject |-> << >>]
    ELSE [pkt |-> pkt, out |-> pkt, target |-> "ACCEPT", inject |-> << >>]

DNatterFilter(r, pkt) ==
    IF ForwardMatch(r, pkt)
    THEN [pkt |-> pkt,
          out |-> [pkt EXCEPT !.DstAddr = r.repl.ip, !.DstPort = r.repl.port],
          target |-> "ACCEPT", inject |-> << >>]
    ELSE IF ReturnMatch(r, pkt)
    THEN [pkt |-> pkt,
          out |-> [pkt EXCEPT !.SrcAddr = r.target.ip, !.SrcPort = r.target.port],
          target |-> "ACCEPT", inject |-> << >>]
    ELSE [pkt |-> pkt, out |-> pkt, target |-> "ACCEPT", inject |-> << >>]

\* The flow of a packet as seen from its sender and from its receiver.
FlowOfSender(pkt) == <<pkt.IPProtocol, pkt.SrcAddr, pkt.SrcPort>>
FlowOfReceiver(pkt) == <<pkt.IPProtocol, pkt.DstAddr, pkt.DstPort>>

\* Router.handle calls the Filter of the DNatter with pkt.
DNatterCall(pkt) ==
    /\ natter.made
    /\ filterRes' = DNatterFilter(natter, pkt)
    /\ forwarded' = IF ForwardMatch(natter, pkt)
                    THEN forwarded \cup {FlowOfSender(pkt)}
                    ELSE forwarded
    /\ UNCHANGED <<resetter, natter>>

(***************************************************************************)
(* SpecNat: a DNatter for the client, and the packets between two ports of *)
(* the client and three ports of the server, among them the target and the *)
(* replacement.                                                            *)
(***************************************************************************)
NatSources == {ClientIP4, ServerIP4}
NatTargets == {AddrPortFrom(ServerIP4, 80), AddrPortFrom(ServerIP4, 443)}
NatRepls == {AddrPortFrom(ServerIP4, 8080), AddrPortFrom(ServerIP4, 80)}
NatEndpoints ==
    {AddrPortFrom(ClientIP4, firstEphemeralPort), AddrPortFrom(ClientIP4, firstEphemeralPort + 1),
     AddrPortFrom(ServerIP4, 80), AddrPortFrom(ServerIP4, 443), AddrPortFrom(ServerIP4, 8080)}
NatPackets ==
    {NewPacket(linuxDefaultTTL, src, dst, pr, fl, b) :
        src \in NatEndpoints, dst \in NatEndpoints, pr \in {IPProtocolTCP, IPProtocolUDP},
        fl \in {TCPFlagPSH + TCPFlagACK}, b \in {<<1>>}}

NatNew ==
    /\ \E source \in NatSources, target \in NatTargets, repl \in NatRepls :
          NewDNatter(source, target, repl)
    /\ FilterUnchanged

NatFilter ==
    /\ \E pkt \in NatPackets : DNatterCall(pkt)
    /\ FilterUnchanged

NextNat == NatNew \/ NatFilter

SpecNat == Init /\ [][NextNat]_vars

\* Everything of the packet but its addresses and ports.
Rest(pkt) == <<pkt.TTL, pkt.IPProtocol, pkt.Flags, pkt.Payload>>
Source(pkt) == AddrPortFrom(pkt.SrcAddr, pkt.SrcPort)
Destination(pkt) == AddrPortFrom(pkt.DstAddr, pkt.DstPort)

C24_ConnectionTracking ==
    natter.made /\ filterRes.target # "none" /\ Source(filterRes.out) # Source(filterRes.pkt) =>
        FlowOfReceiver(filterRes.pkt) \in forwarded

\* The client talked to the replacement itself, no packet of that flow was ever
\* redirected, and the reply of the replacement came out as a reply of the target.
C24_Witness ==
    /\ natter.made /\ natter.source = ClientIP4 /\ natter.target # natter.repl
    /\ forwarded = {}
    /\ Source(filterRes.pkt) = natter.repl
    /\ filterRes.pkt.DstAddr = ClientIP4
    /\ Source(filterRes.out) = natter.target

(***************************************************************************)
(* SpecDatabase: the user of a Database adds IPv4 and IPv6 addresses for   *)
(* names in several spellings, and Handle gets queries of several types    *)
(* and classes, a response, and bytes that are no message.                 *)
(***************************************************************************)
\* Records a run adds for one name, at most.
MaxRecords == 2

DbAddresses == {"10.0.0.1", "8.8.8.8", "2001:4860:4860::8888"}
DbNameLists == {<<"dns.google">>, <<"DNS.Google.">>, <<"example.com">>, <<"dns.google", "example.com.">>}
DbAddressLists == {<<a>> : a \in DbAddresses} \cup {<<a, b>> : a, b \in DbAddresses}
DbQueries ==
    {Pack(NewMsg(1, FALSE, OpcodeQuery, RcodeSuccess, <<NewQuestion(n, ty, cl)>>, << >>)) :
        n \in {"dns.google.", "example.com"}, ty \in {TypeA, TypeAAAA, TypeCNAME, TypeMX},
        cl \in {ClassINET, ClassCHAOS}}
    \cup {Pack(NewMsg(1, TRUE, OpcodeQuery, RcodeSuccess,
                      <<NewQuestion("dns.google.", TypeA, ClassINET)>>, << >>)),
          Pack(NewMsg(1, FALSE, OpcodeQuery, RcodeSuccess, << >>, << >>)),
          <<1, 2>>}

DatabaseAdd ==
    /\ \E domainNames \in DbNameLists, addresses \in DbAddressLists :
          /\ \A i \in 1..Len(domainNames) :
                Len(names[CanonicalName(domainNames[i])]) + Len(addresses) <= MaxRecords
          /\ AddAddresses(domainNames, addresses)
    /\ DatabaseUnchanged

DatabaseHandle ==
    /\ \E rawQuery \in DbQueries : Handle(rawQuery)
    /\ DatabaseUnchanged

NextDatabase == DatabaseAdd \/ DatabaseHandle

SpecDatabase == Init /\ [][NextDatabase]_vars

\* The question and the response of the last call of Handle that wrote.
AskedQuestion == Unpack(dnsRes.query).msg.Question[1]
Answered == Unpack(dnsRes.resp).msg
\* The addresses in the answer and the addresses of a family that were inserted.
AnswerData == [i \in 1..Len(Answered.Answer) |-> Answered.Answer[i].Data]
InsertedOf(n, qtype) ==
    SelectSeq(inserted[n], LAMBDA a : To4IsNil(a) <=> qtype = TypeAAAA)

\* C26 (as stated): after AddAddresses, an A query returns exactly the IPv4
\* addresses inserted for the name, in the order of insertion, also when IPv6
\* addresses were inserted for it, and a query for a type the name has no record of
\* returns NXDOMAIN.
C26_RoundTrip ==
    dnsRes.wrote /\ AskedQuestion.Qclass = ClassINET =>
        LET n == CanonicalName(AskedQuestion.Name)
            qtype == AskedQuestion.Qtype
        IN  IF qtype \in {TypeA, TypeAAAA} /\ InsertedOf(n, qtype) # << >>
            THEN Answered.Rcode = RcodeSuccess /\ AnswerData = InsertedOf(n, qtype)
            ELSE Answered.Rcode = RcodeNameError /\ Answered.Answer = << >>

\* An A query for a name with an IPv4 and an IPv6 address was answered with both.
C26_Witness ==
    /\ dnsRes.wrote
    /\ AskedQuestion.Qtype = TypeA /\ AskedQuestion.Qclass = ClassINET
    /\ inserted[CanonicalName(AskedQuestion.Name)] = <<"8.8.8.8", "2001:4860:4860::8888">>
    /\ AnswerData = <<"8.8.8.8", "2001:4860:4860::8888">>

(***************************************************************************)
(* Pool.Add and Pool.Close.  A closer is [id, err]: err is what its Close  *)
(* returns, 0 for nil.                                                     *)
(***************************************************************************)
\* Pool.Add: p.mu.Lock().
PoolAddLock(g, conn) ==
    /\ addPc[g] = "idle"
    /\ mu = "none"
    /\ mu' = g
    /\ addPc' = [addPc EXCEPT ![g] = "locked"]
    /\ addArg' = [addArg EXCEPT ![g] = conn]
    /\ UNCHANGED <<handles, poolPc, conns, closeIdx, errv, poolRes, added, addedAtClose,
                   closeLog>>

\* p.handles = append(p.handles, conn); p.mu.Unlock().
PoolAddAppend(g) ==
    /\ addPc[g] = "locked"
    /\ handles' = Append(handles, addArg[g])
    /\ added' = Append(added, addArg[g].id)
    /\ mu' = "none"
    /\ addPc' = [addPc EXCEPT ![g] = "idle"]
    /\ UNCHANGED <<addArg, poolPc, conns, closeIdx, errv, poolRes, addedAtClose, closeLog>>

\* Pool.Close: p.mu.Lock().
PoolCloseLock ==
    /\ poolPc = "idle"
    /\ mu = "none"
    /\ mu' = "close"
    /\ poolPc' = "locked"
    /\ UNCHANGED <<handles, addPc, addArg, conns, closeIdx, errv, poolRes, added, addedAtClose,
                   closeLog>>

\* conns := p.handles; p.handles = nil; p.mu.Unlock().
PoolCloseTake ==
    /\ poolPc = "locked"
    /\ conns' = handles
    /\ closeIdx' = Len(handles)
    /\ handles' = << >>
    /\ addedAtClose' = added
    /\ mu' = "none"
    /\ poolPc' = "closing"
    /\ UNCHANGED <<addPc, addArg, errv, poolRes, added, closeLog>>

\* A variant of Backward that gives the closers in the order of the slice.
BackwardIsForward(s, left) == s[Len(s) - left + 1]

\* slices.Backward(conns): the closer of the round with left closers to go.
Backward(s, left) == s[left]

\* One round of the loop: conn.Close(), and its error is appended when not nil.
PoolCloseNext ==
    /\ poolPc = "closing"
    /\ closeIdx > 0
    /\ LET conn == Backward(conns, closeIdx)
       IN  /\ closeLog' = Append(closeLog, conn.id)
           /\ errv' = IF conn.err # 0 THEN Append(errv, conn.err) ELSE errv
    /\ closeIdx' = closeIdx - 1
    /\ UNCHANGED <<handles, mu, addPc, addArg, poolPc, conns, poolRes, added, addedAtClose>>

\* return errors.Join(errv...): nil when errv is empty.
PoolCloseReturn ==
    /\ poolPc = "closing"
    /\ closeIdx = 0
    /\ poolRes' = errv
    /\ poolPc' = "done"
    /\ UNCHANGED <<handles, mu, addPc, addArg, conns, closeIdx, errv, added, addedAtClose,
                   closeLog>>

(***************************************************************************)
(* SpecPool: two goroutines add closers, some of which fail to close, and  *)
(* a third one calls Close.                                                *)
(***************************************************************************)
\* Closers a run adds.
MaxAdds == 3

\* The error of the closer id when its Close fails.
ErrorOf(id) == 100 + id

\* The ids of the closers that an Add has been called with.
Begun == {added[i] : i \in 1..Len(added)} \cup {addArg[g].id : g \in {h \in Adders : addPc[h] = "locked"}}

PoolAdd(g) ==
    /\ Cardinality(Begun) < MaxAdds
    /\ \E fails \in BOOLEAN :
          LET id == Cardinality(Begun) + 1
          IN  PoolAddLock(g, [id |-> id, err |-> IF fails THEN ErrorOf(id) ELSE 0])
    /\ PoolUnchanged

PoolAppend(g) == PoolAddAppend(g) /\ PoolUnchanged
PoolLock == PoolCloseLock /\ PoolUnchanged
PoolTake == PoolCloseTake /\ PoolUnchanged
PoolNext == PoolCloseNext /\ PoolUnchanged
PoolReturn == PoolCloseReturn /\ PoolUnchanged

NextPool ==
    \/ \E g \in Adders : PoolAdd(g) \/ PoolAppend(g)
    \/ PoolLock \/ PoolTake \/ PoolNext \/ PoolReturn

SpecPool == Init /\ [][NextPool]_vars

\* Close runs to its end once it has begun.
SpecPoolFair == SpecPool /\ WF_vars(PoolTake) /\ WF_vars(PoolNext) /\ WF_vars(PoolReturn)

RECURSIVE Reversed(_)
Reversed(s) == IF s = << >> THEN << >> ELSE Append(Reversed(Tail(s)), Head(s))

\* The errors of the closers ids that fail, in the order of ids.
FailuresOf(ids) ==
    LET failing == {c \in {conns[i] : i \in 1..Len(conns)} : c.err # 0}
    IN  SelectSeq([i \in 1..Len(ids) |->
                      IF \E c \in failing : c.id = ids[i] THEN ErrorOf(ids[i]) ELSE 0],
                  LAMBDA e : e # 0)

\* C27: Close closes every closer that was added before it, exactly once and in
\* the reverse of the order of insertion, goes on after a closer fails, and
\* returns the join of the failures in the order of closing (nil when none
\* failed); the calls of Add that add the closers may run concurrently.  A Close
\* that has begun returns.
C27_CloseReverse ==
    /\ [](poolPc = "done" =>
             /\ closeLog = Reversed(addedAtClose)
             /\ \A i, j \in 1..Len(closeLog) : i # j => closeLog[i] # closeLog[j]
             /\ poolRes = FailuresOf(closeLog))
    /\ [](Len(closeLog) <= Len(addedAtClose))
    /\ (poolPc = "locked") ~> (poolPc = "done")

\* Three closers added by two goroutines, the second added fails: Close closed
\* the third, went on past the failure of the second and returned that failure.
C27_Witness ==
    /\ poolPc = "done"
    /\ added = <<1, 2, 3>> /\ closeLog = <<3, 2, 1>>
    /\ poolRes = <<ErrorOf(2)>>
    /\ addArg["a1"].id # 0 /\ addArg["a2"].id # 0

(***************************************************************************)
(* connWrapper.Close: c.closeonce.Do(func) around the Close of the wrapped *)
(* connection, with a log before and after it when netx has a Logger.      *)
(***************************************************************************)
\* WrapConn for a network with or without a Logger and a connection whose Close
\* returns err.
WrapConn(logger, err) ==
    /\ ~wrapper.made
    /\ wrapper' = [made |-> TRUE, logger |-> logger, err |-> err]
    /\ UNCHANGED <<closeonce, wrapPc, wrapErr, logs, closeCount, wrapRets>>

\* Close begins with err = nil, and closeonce.Do runs the function in the first
\* caller, makes a caller that comes while it runs wait for it, and does nothing
\* for a caller that comes later.
WrapCloseBegin(c) ==
    /\ wrapper.made
    /\ wrapPc[c] = "idle"
    /\ wrapErr' = [wrapErr EXCEPT ![c] = "nil"]
    /\ IF closeonce = "new"
       THEN /\ closeonce' = "running"
            /\ wrapPc' = [wrapPc EXCEPT ![c] = "start"]
       ELSE /\ wrapPc' = [wrapPc EXCEPT ![c] = "wait"]
            /\ UNCHANGED closeonce
    /\ UNCHANGED <<wrapper, logs, closeCount, wrapRets>>

\* The function: the log closeStart, when there is a Logger.
WrapCloseStart(c) ==
    /\ wrapPc[c] = "start"
    /\ logs' = IF wrapper.logger THEN Append(logs, "closeStart") ELSE logs
    /\ wrapPc' = [wrapPc EXCEPT ![c] = "close"]
    /\ UNCHANGED <<wrapper, closeonce, wrapErr, closeCount, wrapRets>>

\* err = c.conn.Close().
WrapCloseConn(c) ==
    /\ wrapPc[c] = "close"
    /\ closeCount' = closeCount + 1
    /\ wrapErr' = [wrapErr EXCEPT ![c] = wrapper.err]
    /\ wrapPc' = [wrapPc EXCEPT ![c] = "log"]
    /\ UNCHANGED <<wrapper, closeonce, logs, wrapRets>>

\* The log closeDone, and the function returns: the Once is done.
WrapCloseDone(c) ==
    /\ wrapPc[c] = "log"
    /\ logs' = IF wrapper.logger THEN Append(logs, "closeDone") ELSE logs
    /\ closeonce' = "done"
    /\ wrapPc' = [wrapPc EXCEPT ![c] = "return"]
    /\ UNCHANGED <<wrapper, wrapErr, closeCount, wrapRets>>

\* Do returns to a caller that did not run the function.
WrapCloseWaited(c) ==
    /\ wrapPc[c] = "wait"
    /\ closeonce = "done"
    /\ wrapPc' = [wrapPc EXCEPT ![c] = "return"]
    /\ UNCHANGED <<wrapper, closeonce, wrapErr, logs, closeCount, wrapRets>>

\* return: the named result.
WrapCloseReturn(c) ==
    /\ wrapPc[c] = "return"
    /\ wrapRets' = Append(wrapRets, wrapErr[c])
    /\ wrapPc' = [wrapPc EXCEPT ![c] = "idle"]
    /\ UNCHANGED <<wrapper, closeonce, wrapErr, logs, closeCount>>

(***************************************************************************)
(* SpecWrap: a connWrapper with or without a Logger around a connection    *)
(* whose Close succeeds or fails, and two goroutines that call Close.      *)
(***************************************************************************)
\* Calls of connWrapper.Close in a run.
MaxCloses == 3
\* The error of the wrapped connection when its Close fails.
CloseError == "close error"

WrapNew == (\E logger \in BOOLEAN, err \in {"nil", CloseError} : WrapConn(logger, err)) /\ WrapUnchanged
WrapBegin(c) ==
    /\ Len(wrapRets) + Cardinality({d \in WrapCallers : wrapPc[d] # "idle"}) < MaxCloses
    /\ WrapCloseBegin(c)
    /\ WrapUnchanged
WrapStart(c) == WrapCloseStart(c) /\ WrapUnchanged
WrapConnClose(c) == WrapCloseConn(c) /\ WrapUnchanged
WrapDone(c) == WrapCloseDone(c) /\ WrapUnchanged
WrapWaited(c) == WrapCloseWaited(c) /\ WrapUnchanged
WrapReturn(c) == WrapCloseReturn(c) /\ WrapUnchanged

NextWrap ==
    \/ WrapNew
    \/ \E c \in WrapCallers :
          \/ WrapBegin(c) \/ WrapStart(c) \/ WrapConnClose(c) \/ WrapDone(c)
          \/ WrapWaited(c) \/ WrapReturn(c)

SpecWrap == Init /\ [][NextWrap]_vars

\* C28: however many times connWrapper.Close is called, the Close of the wrapped
\* connection runs once, one pair closeStart, closeDone is logged, and every
\* call returns the error that the wrapped Close returned.
C28_IdempotentClose ==
    wrapRets # << >> =>
        /\ closeCount = 1
        /\ wrapper.logger => logs = <<"closeStart", "closeDone">>
        /\ \A i \in 1..Len(wrapRets) : wrapRets[i] = wrapper.err

\* Three calls on a wrapper with a Logger whose connection fails to close: one
\* Close of the connection, one pair of logs, the first call returned the error
\* and the two others nil.
C28_Witness ==
    /\ wrapper.logger /\ wrapper.err = CloseError
    /\ closeCount = 1 /\ logs = <<"closeStart", "closeDone">>
    /\ wrapRets = <<CloseError, "nil", "nil">>

(***************************************************************************)
(* Network.sequentialDial: the endpoints are dialed with fx one after the  *)
(* other until a dial gives a connection and no error.  errors.Join gives  *)
(* nil when it is given no error that is not nil: the joined error is the  *)
(* sequence of the errors that are not nil, << >> for nil.                 *)
(***************************************************************************)
errorsJoin(es) == SelectSeq(es, LAMBDA e : e # "nil")

\* The call begins: var errv []error.
sequentialDialBegin(endpoints, fx) ==
    /\ sd.pc = "idle"
    /\ sd' = [pc |-> "loop", endpoints |-> endpoints, fx |-> fx, idx |-> 1, errv |-> << >>,
              conn |-> "nil", err |-> << >>, dialed |-> << >>]

\* One round of the loop: fx for the endpoint, and the return of its connection
\* or its error appended to errv.
sequentialDialNext ==
    /\ sd.pc = "loop"
    /\ sd.idx <= Len(sd.endpoints)
    /\ LET endpoint == sd.endpoints[sd.idx]
           r == sd.fx[endpoint]
       IN  IF r.conn # "nil" /\ r.err = "nil"
           THEN sd' = [sd EXCEPT !.pc = "done", !.conn = r.conn, !.err = << >>,
                                 !.dialed = Append(@, endpoint)]
           ELSE sd' = [sd EXCEPT !.idx = @ + 1, !.errv = Append(@, r.err),
                                 !.dialed = Append(@, endpoint)]

\* return nil, errors.Join(errv...).
sequentialDialReturn ==
    /\ sd.pc = "loop"
    /\ sd.idx > Len(sd.endpoints)
    /\ sd' = [sd EXCEPT !.pc = "done", !.conn = "nil", !.err = errorsJoin(sd.errv)]

(***************************************************************************)
(* SpecSequentialDial: sequentialDial for the lists of at most             *)
(* MaxEndpoints endpoints and the dial functions that, for each endpoint,  *)
(* give a connection or fail with the error of the endpoint.               *)
(***************************************************************************)
MaxEndpoints == 2

EndpointLists ==
    UNION {[1..n -> DialEndpoints] : n \in 0..MaxEndpoints}
DialFuncs ==
    {[e \in DialEndpoints |->
         IF e \in ok THEN [conn |-> e, err |-> "nil"] ELSE [conn |-> "nil", err |-> e]] :
        ok \in SUBSET DialEndpoints}

SequentialDialCall ==
    /\ \E endpoints \in EndpointLists, fx \in DialFuncs : sequentialDialBegin(endpoints, fx)
    /\ DialUnchanged
SequentialDialStep == sequentialDialNext /\ DialUnchanged
SequentialDialDone == sequentialDialReturn /\ DialUnchanged

NextSequentialDial == SequentialDialCall \/ SequentialDialStep \/ SequentialDialDone

SpecSequentialDial == Init /\ [][NextSequentialDial]_vars

\* The places in the list of the endpoints whose dial succeeds.
Succeeding == {i \in 1..Len(sd.endpoints) : sd.fx[sd.endpoints[i]].err = "nil"}
FirstSucceeding == CHOOSE i \in Succeeding : \A j \in Succeeding : i <= j

\* C29: sequentialDial dials the endpoints in the order given, stops at the first
\* whose dial gives a connection without error and returns that connection, and
\* dials no later endpoint; otherwise it returns a nil connection and an error
\* that is not nil and wraps the error of every endpoint, also for the empty list:
\* it never returns a nil connection with a nil error.
C29_SequentialDial ==
    sd.pc = "done" =>
        IF Succeeding # {}
        THEN /\ sd.conn = sd.endpoints[FirstSucceeding] /\ sd.err = << >>
             /\ sd.dialed = SubSeq(sd.endpoints, 1, FirstSucceeding)
        ELSE /\ sd.conn = "nil" /\ sd.err # << >>
             /\ sd.dialed = sd.endpoints
             /\ sd.err = sd.endpoints

\* The call for the empty list has returned a nil connection and a nil error.
C29_Witness ==
    /\ sd.pc = "done" /\ sd.endpoints = << >>
    /\ sd.conn = "nil" /\ sd.err = << >>

(***************************************************************************)
(* SpecRefused: a client and a server attached to the router and routed;   *)
(* the client dials TCP to local addresses of the server, port 81, where   *)
(* the server has no port.  Stack.dialContext is the dial, NewTCPConn,     *)
(* Connect and, when Connect failed, conn.Close().                         *)
(***************************************************************************)
RefusedAddrs == {AddrPortFrom(ServerIP4, 81), AddrPortFrom(ServerIP6, 81)}

\* The stacks after construction, with the TCPConn of either package.
InitNet ==
    /\ InitStacks /\ InitPorts /\ InitCalls /\ InitLink /\ InitRouter /\ InitHist
    /\ tcpPkg \in TCPPackages
    /\ InitTcp /\ InitObs

\* The one dial of a run.
RefusedDial(a) == nextId = 0 /\ DialTCPPort("client", a)

NextRefused ==
    \/ \E a \in RefusedAddrs : RefusedDial(a)
    \/ \E p \in PortIds : \E ctx \in {"none", "future"} : ConnectBegin(p, ctx)
    \/ \E p \in PortIds : ConnectSyn(p)
    \/ \E p \in PortIds : ConnectSynDone(p)
    \/ \E p \in PortIds : ConnectDecide(p)
    \/ \E p \in PortIds : InitOnceDeferred(p)
    \/ \E p \in PortIds : TCPConnCloseBegin(p)
    \/ \E p \in PortIds : TCPConnCloseFin(p)
    \/ \E p \in PortIds : TCPConnCloseReturn(p)
    \/ \E p \in PortIds : PortCloseClosePort(p, 1)
    \/ \E p \in PortIds : PortCloseCloseEof(p, 1)
    \/ \E p \in PortIds : PortCloseDeadlines(p, 1)
    \/ \E p \in PortIds : WritePacketSend(p)
    \/ \E p \in PortIds : WritePacketDeadline(p)
    \/ \E p \in PortIds : WritePacketPark(p)
    \/ \E p \in PortIds : MuxRecv(p)
    \/ \E p \in PortIds : MuxPortEof(p)
    \/ \E p \in PortIds : MuxPark(p)
    \/ \E p \in PortIds : MuxForward(p)
    \/ \E p \in PortIds : ReadPacketDeadline(p)
    \/ \E p \in PortIds : ReadPacketPark(p)
    \/ \E p \in PortIds : ReadDeadlineFire(p)
    \/ \E p \in PortIds : WriteDeadlineFire(p)
    \/ \E s \in Stacks : RouterRecv(s)
    \/ \E s \in Stacks : RouterHandle(s)
    \/ \E s \in Stacks : DemuxRecv(s)

SpecRefused == InitNet /\ [][NextRefused]_vars
\* Some goroutine that can take a step eventually takes one.
SpecRefusedFair == SpecRefused /\ WF_vars(NextRefused)

\* The Connect of dialContext on p is in progress, under a context without deadline.
Dialing(p) == connPc[p] \in {"syn", "synWait", "readWait"} /\ ~connCtx[p]

\* C7: when a client and a server are attached to the router and routed, and the
\* client dials TCP to a local address of the server on a port with no matching
\* server port, the RST of the server reaches the client and the dial fails with
\* ECONNREFUSED (not with a timeout and not with ECONNABORTED).
C7_DialRefused ==
    \A p \in PortIds :
        Dialing(p) ~> (connPc[p] = "done" /\ connErr[p] = "ECONNREFUSED")

(***************************************************************************)
(* SpecHandshake: a server with a TCP listener on [::]:80 whose task calls *)
(* Accept in a loop, a client that dials ("tcp", "s4:80"), both attached   *)
(* to the router and routed; then either side closes its connection.  No   *)
(* timer expires: the handshake takes less than the second of Accept and   *)
(* than the deadline of the context.                                       *)
(***************************************************************************)
HandshakeListener == NewPortAddr(AddrPortFrom(IPv6Unspecified, 80), IPProtocolTCP, NoAddrPort)
HandshakeAddr == AddrPortFrom(ServerIP4, 80)

\* The state after Listen("tcp", "[::]:80") of the server returned port 1.
InitHandshake ==
    /\ InitOpened(<<[stack |-> "server", addr |-> HandshakeListener]>>)
    /\ tcpPkg = "netstack"
    /\ InitTcp /\ InitObs

\* The one dial of a run.
HandshakeDial == nextId = 1 /\ DialTCPPort("client", HandshakeAddr)

NextHandshake ==
    \/ HandshakeDial
    \/ \E p \in PortIds : ConnectBegin(p, "none")
    \/ \E p \in PortIds : ConnectSyn(p)
    \/ \E p \in PortIds : ConnectSynDone(p)
    \/ \E p \in PortIds : ConnectDecide(p)
    \/ \E p \in PortIds : InitOnceDeferred(p)
    \/ \E p \in PortIds : AcceptLoop(p)
    \/ \E p \in PortIds : AcceptRead(p)
    \/ \E p \in PortIds : AcceptNewConn(p)
    \/ \E p \in PortIds : AcceptConnDone(p)
    \/ \E p \in PortIds : AcceptReturn(p)
    \/ \E p \in PortIds : ConnAcceptBegin(p)
    \/ \E p \in PortIds : ConnAcceptSynAck(p)
    \/ \E p \in PortIds : ConnAcceptWritten(p)
    \/ \E p \in PortIds : TCPConnCloseBegin(p)
    \/ \E p \in PortIds : TCPConnCloseFin(p)
    \/ \E p \in PortIds : TCPConnCloseReturn(p)
    \/ \E p \in PortIds : PortCloseClosePort(p, 1)
    \/ \E p \in PortIds : PortCloseCloseEof(p, 1)
    \/ \E p \in PortIds : PortCloseDeadlines(p, 1)
    \/ \E p \in PortIds : WritePacketSend(p)
    \/ \E p \in PortIds : WritePacketPark(p)
    \/ \E p \in PortIds : MuxRecv(p)
    \/ \E p \in PortIds : MuxPortEof(p)
    \/ \E p \in PortIds : MuxPark(p)
    \/ \E p \in PortIds : MuxForward(p)
    \/ \E p \in PortIds : ReadPacketRecv(p)
    \/ \E p \in PortIds : ReadPacketPark(p)
    \/ \E s \in Stacks : RouterRecv(s)
    \/ \E s \in Stacks : RouterHandle(s)
    \/ \E s \in Stacks : DemuxRecv(s)
    \/ \E s \in Stacks : DemuxDeliverPortEof(s)
    \/ \E s \in Stacks : DemuxDeliverSend(s)
    \/ \E s \in Stacks : DemuxDeliverPark(s)

SpecHandshake == InitHandshake /\ [][NextHandshake]_vars
\* Some goroutine that can take a step eventually takes one.
SpecHandshakeFair == SpecHandshake /\ WF_vars(NextHandshake)

\* The Connect of dialContext on p is in progress; it returned a connection.
Connecting(p) == ~IsChild(p) /\ connPc[p] \in {"syn", "synWait", "readWait", "deferred"}
Connected(p) == connPc[p] = "done" /\ connErr[p] = "nil"

\* The key of the child port of the connection of the dialed port p: local is the
\* destination of the SYN, remote is its source.
ChildKey(p) == NewPortAddr(portAddr[p].RemoteAddr, IPProtocolTCP, portAddr[p].LocalAddr)

\* Accept returned the connection whose port is the child of p.
Accepted(p) ==
    \E l \in PortIds :
        /\ acceptRes[l].err = "nil" /\ acceptRes[l].conn # NoPort
        /\ portAddr[acceptRes[l].conn] = ChildKey(p)

\* The dial of the run is in its handshake; it returned a connection; Accept
\* returned the other end of that connection.
DialBegun == \E p \in PortIds : Connecting(p)
DialReturned == \E p \in PortIds : ~IsChild(p) /\ Connected(p)
AcceptReturned == \E p \in PortIds : ~IsChild(p) /\ Accepted(p)

\* The child port is in the table of the server while Accept writes the SYN|ACK.
ChildInTable ==
    \A c \in PortIds :
        connPc[c] \in {"synack", "synackWait"} =>
            Lookup(ports[portStack[c]], portAddr[c]) = c

\* The last packet the demux handed to a reader was handed to a listening port
\* and is not a SYN.
ListenerGotNonSyn ==
    /\ lastDemux.outcome = "nil" /\ lastDemux.port # NoPort
    /\ IsListener(lastDemux.port)
    /\ lastDemux.pkt.Flags # TCPFlagSYN

\* The port of the connection of pkt was removed from the table by its Close.
ChildClosed(pkt) ==
    \E c \in PortIds :
        /\ Allocated(c) /\ closePortCalls[c] > 0
        /\ portAddr[c] = NewPortAddr(AddrPortFrom(pkt.DstAddr, pkt.DstPort), IPProtocolTCP,
                                     AddrPortFrom(pkt.SrcAddr, pkt.SrcPort))

\* C9 (as stated): with a listener whose task is in Accept, both stacks attached and
\* routed and no packet dropped, a client TCP dial eventually returns a connection
\* and Accept eventually returns a connection; the child port keyed (local = SYN
\* destination, remote = SYN source) is in the table of the server before the
\* SYN|ACK is emitted, so no packet the client sends after a successful dial is
\* delivered to the listening port.
C9_Handshake ==
    /\ DialBegun ~> (DialReturned /\ AcceptReturned)
    /\ [](ChildInTable /\ ~ListenerGotNonSyn)

\* C9 (amended): as above, but a packet the client sends after a successful dial
\* is kept from the listening port only while the child port is in the table:
\* once the server has closed the connection, the packets of the client for it
\* are delivered to the listening port.
C9_HandshakeUntilClose ==
    /\ DialBegun ~> (DialReturned /\ AcceptReturned)
    /\ [](ChildInTable /\ (ListenerGotNonSyn => ChildClosed(lastDemux.pkt)))

\* The dial and Accept returned the two ends of a connection, the server closed
\* its end, and the FIN of the client was then delivered to the listening port.
C9_Witness ==
    /\ \E p \in PortIds : Connected(p) /\ Accepted(p)
    /\ ListenerGotNonSyn /\ ChildClosed(lastDemux.pkt)
    /\ lastDemux.pkt.Flags = TCPFlagFIN

(***************************************************************************)
(* SpecTable: the port table of one stack under concurrent Listen,         *)
(* ListenPacket, dial, NewTCPConn, Port.Close, Stack.Close and Link.Close. *)
(***************************************************************************)
TableNetworks == {"tcp", "udp", "ip4:icmp"}
TableListenAddrs ==
    {AddrPortFrom(ip, port) : ip \in {IPv6Unspecified, ServerIP4, ClientIP4}, port \in {0, 80}}
TableDialAddrs ==
    {AddrPortFrom(ClientIP4, 80), AddrPortFrom(IPv4Unspecified, 80), AddrPortFrom(ClientIP4, 0)}
TableChildLocal == {AddrPortFrom(ServerIP4, 80)}
TableChildRemote == {AddrPortFrom(ClientIP4, firstEphemeralPort)}

\* Ports a run of SpecTable creates.
TablePorts == 2

TableListen(n, a) == nextId < TablePorts /\ Listen("server", n, a)
TableListenPacket(n, a) == nextId < TablePorts /\ ListenPacket("server", n, a)
TableDialUDP(n, a) == nextId < TablePorts /\ DialUDP("server", n, a)
TableDialTCP(a) == nextId < TablePorts /\ DialTCPPort("server", a)
TableNewTCPConn(l, r) == nextId < TablePorts /\ NewTCPConn("server", l, r)

NextTable ==
    \/ \E n \in TableNetworks, a \in TableListenAddrs : TableListen(n, a)
    \/ \E n \in TableNetworks, a \in TableListenAddrs : TableListenPacket(n, a)
    \/ \E n \in TableNetworks, a \in TableDialAddrs : TableDialUDP(n, a)
    \/ \E a \in TableDialAddrs : TableDialTCP(a)
    \/ \E l \in TableChildLocal, r \in TableChildRemote : TableNewTCPConn(l, r)
    \/ \E p \in PortIds : PortCloseBegin(p, 1)
    \/ \E p \in PortIds : PortCloseClosePort(p, 1)
    \/ \E p \in PortIds : PortCloseCloseEof(p, 1)
    \/ \E p \in PortIds : PortCloseDeadlines(p, 1)

SpecTable == Init /\ [][NextTable]_vars

\* The entries of the table of s that refer to port p.
EntriesOf(s, p) == {a \in DOMAIN ports[s] : ports[s][a] = p}

\* C1 (as stated): every open port (its EOF signal not closed) has exactly one
\* entry in the port table of its stack, stored under the port's own PortAddr,
\* and no entry of a table refers to a closed port.
C1_PortTableBijection ==
    /\ \A p \in PortIds : IsOpen(p) => EntriesOf(portStack[p], p) = {portAddr[p]}
    /\ \A s \in Stacks : \A a \in DOMAIN ports[s] : IsOpen(ports[s][a])

\* C1 (amended): every port on which Close has not begun has exactly one entry
\* in the port table of its stack, stored under the port's own PortAddr; an open
\* port has at most that entry; no entry of a table refers to a closed port.
\* (Between ClosePort and close(eof) a closing port is open and has no entry.)
C1_PortTableBijectionUntilClose ==
    /\ \A p \in PortIds :
          /\ Allocated(p) /\ portOnce[p] = "new" => EntriesOf(portStack[p], p) = {portAddr[p]}
          /\ Allocated(p) => EntriesOf(portStack[p], p) \subseteq {portAddr[p]}
    /\ \A s \in Stacks : \A a \in DOMAIN ports[s] : IsOpen(ports[s][a])

\* Two open ports are in the table and a port that was closed has left it.
C1_Witness ==
    \E p, q \in PortIds :
        /\ p # q
        /\ IsOpen(p) /\ portOnce[p] = "new" /\ EntriesOf("server", p) = {portAddr[p]}
        /\ Allocated(q) /\ portEof[q] > 0 /\ EntriesOf("server", q) = {}

\* The call of this step fails with err: it returns no port, adds no port to
\* the table and leaves the ephemeral counters alone.
Refused(err) ==
    /\ apiRes'.err = err /\ apiRes'.port = NoPort
    /\ ports' = ports /\ nextId' = nextId /\ nextport' = nextport

\* A specified IP address that is not an address of stack s.
NotLocal(s, a) == ~IsUnspecified(a.ip) /\ ~isLocalAddr(s, a.ip)

\* A destination with an unspecified IP address or with port 0.
NoDestination(a) == IsUnspecified(a.ip) \/ a.port = 0

\* C19: Listen and ListenPacket on a specified IP address that is not local fail
\* with EADDRNOTAVAIL; a dial to an unspecified IP address or to port 0 fails with
\* EHOSTUNREACH; an unsupported network fails with EPROTONOSUPPORT; in each case no
\* port is added to the table and the ephemeral counters do not change.
C19_OpenErrors ==
    [][/\ \A n \in TableNetworks, a \in TableListenAddrs :
             /\ Listen("server", n, a) /\ n # "tcp" => Refused("EPROTONOSUPPORT")
             /\ Listen("server", n, a) /\ n = "tcp" /\ NotLocal("server", a)
                    => Refused("EADDRNOTAVAIL")
             /\ ListenPacket("server", n, a) /\ n # "udp" => Refused("EPROTONOSUPPORT")
             /\ ListenPacket("server", n, a) /\ n = "udp" /\ NotLocal("server", a)
                    => Refused("EADDRNOTAVAIL")
       /\ \A n \in TableNetworks, a \in TableDialAddrs :
             /\ DialUDP("server", n, a) /\ n # "udp" => Refused("EPROTONOSUPPORT")
             /\ DialUDP("server", n, a) /\ n = "udp" /\ NoDestination(a)
                    => Refused("EHOSTUNREACH")
       /\ \A a \in TableDialAddrs :
             DialTCPPort("server", a) /\ NoDestination(a) => Refused("EHOSTUNREACH")]_vars

\* A Listen failed with EADDRNOTAVAIL after an ephemeral TCP port was handed out,
\* and the counter stands where that port left it.
C19_Witness ==
    /\ apiRes.op = "Listen" /\ apiRes.err = "EADDRNOTAVAIL"
    /\ nextId = 1
    /\ nextport["server"][IPProtocolTCP] = firstEphemeralPort + 1

(***************************************************************************)
(* SpecClose: concurrent callers of Port.Close on a port of a stack, of     *)
(* Stack.Close and of Link.Close.                                          *)
(***************************************************************************)
NextClose ==
    \/ Listen("server", "tcp", AddrPortFrom(IPv6Unspecified, 80))
    \/ \E k \in Closers : PortCloseBegin(1, k)
    \/ \E k \in Closers : PortCloseClosePort(1, k)
    \/ \E k \in Closers : PortCloseCloseEof(1, k)
    \/ \E k \in Closers : PortCloseDeadlines(1, k)
    \/ \E k \in Closers : PortCloseWaited(1, k)
    \/ \E k \in Closers : StackCloseBegin("server", k)
    \/ \E k \in Closers : StackCloseCloseEof("server", k)
    \/ \E k \in Closers : StackCloseWaited("server", k)
    \/ \E k \in Closers : LinkCloseBegin(k)
    \/ \E k \in Closers : LinkCloseCloseEof(k)
    \/ \E k \in Closers : LinkCloseWaited(k)

SpecClose == Init /\ [][NextClose]_vars

\* C4: the effects of Close on a port, a stack and a link happen exactly once
\* however many calls are made: one ClosePort and one close of the EOF signal
\* per port, one close of the EOF signal per stack and per link, never a second
\* close of a closed signal; a call returns only after they happened.
C4_CloseOnce ==
    /\ \A p \in PortIds :
          /\ closePortCalls[p] <= 1 /\ portEof[p] <= 1
          /\ (\E k \in Closers : closePc[p][k] = "done")
                => closePortCalls[p] = 1 /\ portEof[p] = 1
    /\ \A s \in Stacks :
          /\ stackEof[s] <= 1
          /\ (\E k \in Closers : stackClosePc[s][k] = "done") => stackEof[s] = 1
    /\ linkEof <= 1
    /\ (\E k \in Closers : linkClosePc[k] = "done") => linkEof = 1

\* Every caller of Close on one port, on the stack and on the link has returned.
C4_Witness ==
    /\ \E p \in PortIds : \A k \in Closers : closePc[p][k] = "done"
    /\ \A k \in Closers : stackClosePc["server"][k] = "done" /\ linkClosePc[k] = "done"


(***************************************************************************)
(* SpecDemux: findPortLocked on every port table of at most MaxPorts       *)
(* entries and every packet for a local address of the server.             *)
(***************************************************************************)
DemuxRemotes == {AddrPortFrom(ClientIP4, 1000), AddrPortFrom(ClientIP6, 1000)}
DemuxKeys ==
    {NewPortAddr(AddrPortFrom(ip, 80), pr, r) :
        ip \in {ServerIP4, ServerIP6, IPv4Unspecified, IPv6Unspecified},
        pr \in {IPProtocolTCP, IPProtocolUDP},
        r \in DemuxRemotes \cup {NoAddrPort}}
DemuxPackets ==
    {NewPacket(linuxDefaultTTL, src, AddrPortFrom(ip, 80), pr, 0, << >>) :
        src \in DemuxRemotes, ip \in {ServerIP4, ServerIP6},
        pr \in {IPProtocolTCP, IPProtocolUDP}}

\* The table with the keys D, its ports numbered 1..Cardinality(D).
TableOf(D) ==
    CHOOSE f \in [D -> 1..Cardinality(D)] : \A a, b \in D : a # b => f[a] # f[b]

InitDemux ==
    \E D \in SUBSET DemuxKeys :
        /\ Cardinality(D) <= MaxPorts
        /\ ports = [s \in Stacks |-> IF s = "server" THEN TableOf(D) ELSE EmptyTable]
        /\ nextId = Cardinality(D)
        /\ portAddr = [p \in PortIds |->
                          IF p <= Cardinality(D)
                          THEN CHOOSE a \in D : TableOf(D)[a] = p ELSE NoPortAddr]
        /\ portStack = [p \in PortIds |-> IF p <= Cardinality(D) THEN "server" ELSE "none"]
        /\ muxPc = [p \in PortIds |-> IF p <= Cardinality(D) THEN "select" ELSE "none"]
        /\ nextport = [s \in Stacks |->
                          [pr \in {IPProtocolTCP, IPProtocolUDP} |-> firstEphemeralPort]]
        /\ stackEof = [s \in Stacks |-> 0]
        /\ stackOnce = [s \in Stacks |-> "new"]
        /\ stackIn = [s \in Stacks |-> << >>]
        /\ stackOut = [s \in Stacks |-> << >>]
        /\ demuxPc = [s \in Stacks |-> "loop"]
        /\ demuxPkt = [s \in Stacks |-> NoPacket]
        /\ demuxPort = [s \in Stacks |-> NoPort]
        /\ panicked = FALSE
        /\ portEof = [p \in PortIds |-> 0]
        /\ portOnce = [p \in PortIds |-> "new"]
        /\ rd = [p \in PortIds |-> NoDeadline]
        /\ wd = [p \in PortIds |-> NoDeadline]
        /\ muxPkt = [p \in PortIds |-> NoPacket]
        /\ InitCalls /\ InitLink /\ InitRouter /\ InitHist /\ InitNoTcp

\* The lookup of demux, under the read lock of the table.
FindPort(s, pkt) ==
    /\ ~panicked
    /\ lastFind' = [pkt |-> pkt, port |-> findPortLocked(ports[s], pkt)]
    /\ UNCHANGED <<stackVars, portVars, callVars, upperVars, apiRes, closePortCalls,
                   rdAfterClose, wrAfterClose, lastDemux>>

NextDemux == \E pkt \in DemuxPackets : FindPort("server", pkt)

SpecDemux == InitDemux /\ [][NextDemux]_vars

\* The port under the first key of keys that the table holds, NoPort when it holds none.
FirstHit(table, keys) ==
    IF \E i \in 1..Len(keys) : keys[i] \in DOMAIN table
    THEN table[keys[CHOOSE i \in 1..Len(keys) :
                       /\ keys[i] \in DOMAIN table
                       /\ \A j \in 1..(i - 1) : keys[j] \notin DOMAIN table]]
    ELSE NoPort

UnspecifiedOfFamily(ip) == IF Is4(ip) THEN IPv4Unspecified ELSE IPv6Unspecified

\* The four keys of the cascade as the claim states it.
C5_FourKeys(pkt) ==
    LET local == AddrPortFrom(pkt.DstAddr, pkt.DstPort)
        wild == AddrPortFrom(UnspecifiedOfFamily(pkt.DstAddr), pkt.DstPort)
        remote == AddrPortFrom(pkt.SrcAddr, pkt.SrcPort)
    IN  << NewPortAddr(local, pkt.IPProtocol, remote),
           NewPortAddr(local, pkt.IPProtocol, NoAddrPort),
           NewPortAddr(wild, pkt.IPProtocol, remote),
           NewPortAddr(wild, pkt.IPProtocol, NoAddrPort) >>

\* The six keys the lookup tries: the wildcard steps run for 0.0.0.0 and then
\* for ::, whatever the family of the packet.
C5_SixKeys(pkt) ==
    LET local == AddrPortFrom(pkt.DstAddr, pkt.DstPort)
        wild4 == AddrPortFrom(IPv4Unspecified, pkt.DstPort)
        wild6 == AddrPortFrom(IPv6Unspecified, pkt.DstPort)
        remote == AddrPortFrom(pkt.SrcAddr, pkt.SrcPort)
    IN  << NewPortAddr(local, pkt.IPProtocol, remote),
           NewPortAddr(local, pkt.IPProtocol, NoAddrPort),
           NewPortAddr(wild4, pkt.IPProtocol, remote),
           NewPortAddr(wild4, pkt.IPProtocol, NoAddrPort),
           NewPortAddr(wild6, pkt.IPProtocol, remote),
           NewPortAddr(wild6, pkt.IPProtocol, NoAddrPort) >>

\* C5 (as stated): the port demux chooses for a packet to a local address is the
\* first hit of (1) the exact five-tuple, (2) the exact local endpoint with
\* wildcard remote, (3) the unspecified address of the packet's family with the
\* exact remote, (4) that address with wildcard remote; no port when all miss.
C5_CascadeOfFamily ==
    lastFind.pkt # NoPacket =>
        lastFind.port = FirstHit(ports["server"], C5_FourKeys(lastFind.pkt))

\* C5 (amended): the port chosen is the first hit of (1) the exact five-tuple,
\* (2) the exact local endpoint with wildcard remote, (3) 0.0.0.0 with the exact
\* remote, (4) 0.0.0.0 with wildcard remote, (5) :: with the exact remote, (6) ::
\* with wildcard remote, for a packet of either family; no port when all six miss.
C5_CascadeBothWildcards ==
    lastFind.pkt # NoPacket =>
        lastFind.port = FirstHit(ports["server"], C5_SixKeys(lastFind.pkt))

\* An IPv4 packet found the listener on [::]:80 while the table also holds a
\* connected port of another remote.
C5_Witness ==
    /\ lastFind.pkt.DstAddr = ServerIP4
    /\ lastFind.port # NoPort
    /\ portAddr[lastFind.port].LocalAddr.ip = IPv6Unspecified
    /\ Cardinality(DOMAIN ports["server"]) = 2

(***************************************************************************)
(* SpecAccept: the task of a server calls Accept in a loop on its listener *)
(* on [::]:80 while a device delivers segments for port 80 from one remote *)
(* endpoint: SYN and SYN|ACK.  The timer of the write deadline of a child  *)
(* may expire before its SYN|ACK is written, and another goroutine may    *)
(* close the listener.                                                     *)
(***************************************************************************)
AcceptLocal == AddrPortFrom(ServerIP4, 80)
AcceptRemote == AddrPortFrom(ClientIP4, firstEphemeralPort)
AcceptFlags == {TCPFlagSYN, TCPFlagSYN + TCPFlagACK}
AcceptPackets ==
    {NewPacket(linuxDefaultTTL - 1, AcceptRemote, AcceptLocal, IPProtocolTCP, f, << >>) :
        f \in AcceptFlags}

\* A segment for port 80 arrives at the server, once the one before it was taken.
AcceptArrive ==
    /\ stackIn["server"] = << >>
    /\ \E pkt \in AcceptPackets : DeviceSend("server", pkt)
\* The link takes a segment of the server.
AcceptDepart == DeviceRecv("server")
\* Another goroutine closes the listener.
AcceptListenerClose == \E l \in PortIds : IsListener(l) /\ PortCloseBegin(l, 1)
\* conn.Close() of Accept, for the child whose Accept failed.
AcceptCloseConn ==
    \E l \in PortIds : acceptPc[l] = "closeConn" /\ TCPConnCloseBegin(acceptConn[l])

NextAccept ==
    \/ AcceptArrive
    \/ AcceptDepart
    \/ AcceptListenerClose
    \/ \E p \in PortIds : AcceptLoop(p)
    \/ \E p \in PortIds : AcceptRead(p)
    \/ \E p \in PortIds : AcceptNewConn(p)
    \/ \E p \in PortIds : AcceptConnDone(p)
    \/ \E p \in PortIds : AcceptReturn(p)
    \/ \E p \in PortIds : ConnAcceptBegin(p)
    \/ \E p \in PortIds : ConnAcceptSynAck(p)
    \/ \E p \in PortIds : ConnAcceptWritten(p)
    \/ \E p \in PortIds : InitOnceDeferred(p)
    \/ AcceptCloseConn
    \/ \E p \in PortIds : TCPConnCloseFin(p)
    \/ \E p \in PortIds : TCPConnCloseReturn(p)
    \/ \E p \in PortIds : PortCloseClosePort(p, 1)
    \/ \E p \in PortIds : PortCloseCloseEof(p, 1)
    \/ \E p \in PortIds : PortCloseDeadlines(p, 1)
    \/ \E p \in PortIds : WriteDeadlineFire(p)
    \/ \E p \in PortIds : WritePacketSend(p)
    \/ \E p \in PortIds : WritePacketDeadline(p)
    \/ \E p \in PortIds : WritePacketPark(p)
    \/ \E p \in PortIds : MuxRecv(p)
    \/ \E p \in PortIds : MuxPortEof(p)
    \/ \E p \in PortIds : MuxPark(p)
    \/ \E p \in PortIds : MuxForward(p)
    \/ \E p \in PortIds : ReadPacketRecv(p)
    \/ \E p \in PortIds : ReadPacketEof(p)
    \/ \E p \in PortIds : ReadPacketPark(p)
    \/ DemuxRecv("server")
    \/ DemuxDeliverPortEof("server")
    \/ DemuxDeliverSend("server")
    \/ DemuxDeliverPark("server")

SpecAccept == InitHandshake /\ [][NextAccept]_vars

\* The key of the child port for the segment pkt: local is its destination, remote
\* is its source.
AcceptKey(pkt) ==
    NewPortAddr(AddrPortFrom(pkt.DstAddr, pkt.DstPort), IPProtocolTCP,
                AddrPortFrom(pkt.SrcAddr, pkt.SrcPort))

\* The port c is in the table of its stack, under its key.
InTable(c) ==
    /\ portAddr[c] \in DOMAIN ports[portStack[c]]
    /\ ports[portStack[c]][portAddr[c]] = c

\* The child port c, whose Accept returned an error.
FailedChild(c) ==
    /\ Allocated(c) /\ IsDialed(c) /\ portStack[c] = "server"
    /\ connPc[c] = "done" /\ connErr[c] # "nil"

\* Accept of l returned a connection: the last segment read from the passive port
\* had the flags SYN, and the connection is that of its child port.
AcceptedSyn(l) ==
    (acceptPc[l] = "done" /\ acceptRes[l].conn # NoPort)
        => /\ acceptRes[l].err = "nil"
           /\ rdRes[l].err = "nil"
           /\ rdRes[l].pkt.Flags = TCPFlagSYN
           /\ portAddr[acceptRes[l].conn] = AcceptKey(rdRes[l].pkt)

\* Accept of l returned an error: the error of its last ReadPacket.
AcceptErrorIsReadError(l) ==
    (acceptPc[l] = "done" /\ acceptRes[l].conn = NoPort)
        => /\ rdRes[l].err # "nil"
           /\ acceptRes[l].err = rdRes[l].err

\* No child whose Accept failed is in the table, but the one whose error Accept is
\* about to see, or which it is closing.
NoFailedChildInTable ==
    \A c \in PortIds :
        (/\ FailedChild(c)
         /\ ~\E l \in PortIds : acceptPc[l] \in {"accept", "closeConn"} /\ acceptConn[l] = c)
            => ~InTable(c)

\* The steps of Accept of l that continue the loop: after a segment whose flags are
\* not SYN, and after the error of NewTCPConn; neither returns, nor changes the table.
AcceptContinues(l) ==
    /\ (acceptPc[l] = "read" /\ acceptPc'[l] # "read" /\ rdRes[l].err = "nil"
            /\ rdRes[l].pkt.Flags # TCPFlagSYN)
        => acceptPc'[l] = "loop" /\ acceptRes' = acceptRes /\ ports' = ports
               /\ nextId' = nextId
    /\ (acceptPc[l] = "newConn" /\ acceptPc'[l] # "newConn" /\ apiRes'.err # "nil")
        => acceptPc'[l] = "loop" /\ acceptRes' = acceptRes /\ ports' = ports
               /\ nextId' = nextId
    /\ (acceptPc[l] = "accept" /\ acceptPc'[l] # "accept" /\ connErr[acceptConn[l]] # "nil")
        => acceptPc'[l] = "closeConn" /\ acceptRes' = acceptRes
    /\ (acceptPc[l] = "closeConn" /\ acceptPc'[l] # "closeConn")
        => acceptPc'[l] = "read" /\ acceptRes' = acceptRes

\* C30: TCPListener.Accept returns a connection only for a segment whose flags are
\* exactly SYN; any other segment read from the passive port is discarded and the
\* loop continues; when NewTCPConn fails (EADDRINUSE) or the Accept of the child
\* fails, the loop continues without returning an error and no port of that child
\* is left in the table; the only errors Accept returns are those of ReadPacket of
\* the passive port.
C30_AcceptOnlySyn ==
    /\ [](/\ \A l \in PortIds : AcceptedSyn(l) /\ AcceptErrorIsReadError(l)
          /\ NoFailedChildInTable)
    /\ [][\A l \in PortIds : AcceptContinues(l)]_vars

\* Accept returned the error of the closed listener, after NewTCPConn failed with
\* EADDRINUSE for a second SYN of one endpoint, and after the Accept of a child
\* failed on its write deadline and the child was closed.
C30_Witness ==
    /\ \E l \in PortIds :
          /\ IsListener(l) /\ acceptPc[l] = "done"
          /\ acceptRes[l] = [conn |-> NoPort, err |-> "ErrClosed"]
    /\ apiRes.op = "NewTCPConn" /\ apiRes.err = "EADDRINUSE"
    /\ \E c \in PortIds :
          FailedChild(c) /\ connErr[c] = "ErrDeadlineExceeded" /\ ~InTable(c)


(***************************************************************************)
(* SpecMux: a UDP port of a server with a writer, the traffic that arrives *)
(* for the stack, a device that may or may not take what the stack emits,  *)
(* Port.Close and Stack.Close.  SpecMuxFair adds the fairness of the Go    *)
(* scheduler for the goroutines of the port and of the stack and for the   *)
(* callers of Close; nothing obliges the device to read.                   *)
(***************************************************************************)
NextMux ==
    \/ \E p \in PortIds : WritePacketBegin(p, << >>, 0, StackCloseRemote)
    \/ \E p \in PortIds : WritePacketReturn(p)
    \/ \E p \in PortIds : WritePacketSend(p)
    \/ \E p \in PortIds : WritePacketEof(p)
    \/ \E p \in PortIds : WritePacketPark(p)
    \/ \E p \in PortIds : MuxRecv(p)
    \/ \E p \in PortIds : MuxPortEof(p)
    \/ \E p \in PortIds : MuxStackEof(p)
    \/ \E p \in PortIds : MuxPark(p)
    \/ \E p \in PortIds : MuxForward(p)
    \/ DemuxRecv("server")
    \/ DemuxExit("server")
    \/ DemuxDeliverPortEof("server")
    \/ DemuxDeliverStackEof("server")
    \/ DemuxDeliverPark("server")
    \/ \E pkt \in PortClosePackets : DeviceSend("server", pkt)
    \/ DeviceRecv("server")
    \/ PortCloseBegin(1, 1)
    \/ PortCloseClosePort(1, 1)
    \/ PortCloseCloseEof(1, 1)
    \/ PortCloseDeadlines(1, 1)
    \/ StackCloseBegin("server", 1)
    \/ StackCloseCloseEof("server", 1)

\* The steps of the one caller of Port.Close.
PortCloseSteps(p) ==
    PortCloseClosePort(p, 1) \/ PortCloseCloseEof(p, 1) \/ PortCloseDeadlines(p, 1)

SpecMux == InitPortClose /\ [][NextMux]_vars
\* A select whose EOF case stays ready takes it in the end, since Go chooses at
\* random among the ready cases.
SelectFairness ==
    /\ \A s \in Stacks : SF_vars(DemuxExit(s))
    /\ \A p \in PortIds : SF_vars(MuxPortEof(p) \/ MuxStackEof(p))

\* The steps of the muxOutgoingTraffic goroutine of p, and of demuxLoop of s.
MuxSteps(p) ==
    MuxRecv(p) \/ MuxPortEof(p) \/ MuxStackEof(p) \/ MuxPark(p) \/ MuxForward(p)
DemuxSteps(s) ==
    \/ DemuxRecv(s) \/ DemuxExit(s) \/ DemuxDeliverPortEof(s) \/ DemuxDeliverStackEof(s)
    \/ DemuxDeliverPark(s)

SpecMuxFair ==
    /\ SpecMux /\ SelectFairness
    /\ \A p \in PortIds : WF_vars(MuxSteps(p)) /\ WF_vars(PortCloseSteps(p))
    /\ \A s \in Stacks : WF_vars(DemuxSteps(s)) /\ WF_vars(StackCloseCloseEof(s, 1))

\* C31: after Stack.Close the demux loop and the muxOutgoingTraffic goroutine of
\* every port of the stack eventually terminate, and after Port.Close the
\* muxOutgoingTraffic goroutine of the port eventually terminates, also when the
\* output of the stack is full and nobody reads it.
C31_TasksTerminate ==
    /\ \A s \in Stacks : (stackEof[s] > 0) ~> (demuxPc[s] = "exit")
    /\ \A p \in PortIds :
          (Allocated(p) /\ (portEof[p] > 0 \/ stackEof[portStack[p]] > 0))
              ~> (muxPc[p] = "exit")

\* The port is closed and its muxOutgoingTraffic goroutine is in its send to the
\* full output of the stack.
C31_Witness ==
    \E p \in PortIds :
        /\ Allocated(p) /\ portEof[p] > 0
        /\ muxPc[p] = "forward"
        /\ Len(stackOut[portStack[p]]) = ChanCap


(***************************************************************************)
(* SpecReadLoop: the readLoop goroutines of the router for the client and  *)
(* for the server; the client posts datagrams for the server and for       *)
(* itself, without filters, and either stack may be closed.  The server    *)
(* never reads its input, and nothing obliges the client to read its own.  *)
(* SpecReadLoopFair schedules every readLoop.                              *)
(***************************************************************************)
ReadLoopClient == AddrPortFrom(ClientIP4, 1000)
ReadLoopServer == AddrPortFrom(ServerIP4, 53)
ReadLoopPackets ==
    {NewPacket(linuxDefaultTTL, ReadLoopClient, dst, IPProtocolUDP, 0, << >>) :
        dst \in {ReadLoopClient, ReadLoopServer}}

\* The stack s posts a datagram of its own on its output.
ReadLoopPost(s) ==
    \E pkt \in ReadLoopPackets : isLocalAddr(s, pkt.SrcAddr) /\ StackOutput(s, pkt)

NextReadLoop ==
    \/ \E s \in Stacks : ReadLoopPost(s)
    \/ \E s \in Stacks : RouterRecv(s)
    \/ \E s \in Stacks : RouterHandle(s)
    \/ \E s \in Stacks : RouterExit(s)
    \/ DemuxRecv("client")
    \/ \E s \in Stacks : StackCloseBegin(s, 1)
    \/ \E s \in Stacks : StackCloseCloseEof(s, 1)

\* The steps of readLoop for the device s.
ReadLoopSteps(s) == RouterRecv(s) \/ RouterHandle(s) \/ RouterExit(s)

SpecReadLoop == Init /\ [][NextReadLoop]_vars
SpecReadLoopFair ==
    /\ SpecReadLoop
    /\ \A s \in Stacks : WF_vars(ReadLoopSteps(s)) /\ SF_vars(RouterExit(s))
    /\ \A s \in Stacks : WF_vars(StackCloseCloseEof(s, 1))

\* A step of handle of readLoop of s: the full input of a device is left alone, and
\* no input loses a packet or grows over its capacity; the packet is added to the
\* input of its next hop exactly when that input has room.
HandleDrops(s) ==
    (routerPc[s] = "handle" /\ routerPc'[s] # "handle")
        => /\ routerPc'[s] = "loop"
           /\ \A d \in Stacks :
                 /\ IsPrefix(stackIn[d], stackIn'[d])
                 /\ Len(stackIn'[d]) <= ChanCap
                 /\ Len(stackIn[d]) = ChanCap => stackIn'[d] = stackIn[d]
           /\ routerPkt[s].TTL > 0
                 => LET d == srt(routerPkt[s].DstAddr)
                    IN  stackIn' = IF Len(stackIn[d]) < ChanCap
                                   THEN [stackIn EXCEPT
                                            ![d] = Append(@, [routerPkt[s] EXCEPT
                                                                 !.TTL = @ - 1])]
                                   ELSE stackIn

\* C32: the readLoop of a device never blocks while it forwards: when the input of
\* the destination is full the packet is dropped and the loop goes on with the next
\* packet, so that a device that does not read its input does not stall the traffic
\* of the others; the loop exits when the EOF of its device is signalled.
C32_ReadLoopNeverBlocks ==
    /\ [](\A s \in Stacks : routerPc[s] = "handle" => ENABLED RouterHandle(s))
    /\ [][\A s \in Stacks : HandleDrops(s)]_vars
    /\ \A s \in Stacks :
          /\ (routerPc[s] = "handle") ~> (routerPc[s] = "loop")
          /\ (Len(stackOut[s]) = ChanCap)
                ~> (Len(stackOut[s]) < ChanCap \/ routerPc[s] = "exit")
          /\ (stackEof[s] > 0) ~> (routerPc[s] = "exit")

\* The input of the server is full and the last handle of the readLoop of the client
\* dropped a datagram for the server; it is back in its loop with the next datagram
\* waiting, and the readLoop of the closed server has exited.
C32_Witness ==
    /\ Len(stackIn["server"]) = ChanCap
    /\ \E i \in 1..Len(handled) :
          /\ handled[i].what = "route" /\ handled[i].err = "errBufferFull"
          /\ handled[i].nextHop = "server"
    /\ routerPc["client"] = "loop" /\ stackOut["client"] # << >>
    /\ routerPc["server"] = "exit"


(***************************************************************************)
(* deadline.Set of package netsim, step by step: the mutex, Stop of the    *)
(* pending timer, the wait for a callback that has started, the rest of    *)
(* the function; and the timer of time.AfterFunc, which expires (from then *)
(* on Stop returns false) and then runs its callback, close(d.cancel).     *)
(* The channels and the timers are numbered in the order of their          *)
(* creation; closes[c] counts the calls of close on channel c.  A time in  *)
(* the future is later than the return of the Set that is given it.        *)
(***************************************************************************)
\* Calls of Set in a run.
MaxSets == 3
DeadlineTimeArgs == {"zero", "future", "past"}

\* isClosedChan(d.cancel).
isClosedChan(d) == d.closes[d.cancel] > 0

\* d.cancel = make(chan struct{}).
MakeCancel(d) == [d EXCEPT !.cancel = Len(d.closes) + 1, !.closes = Append(@, 0)]

\* Set(t) is called by g.
DeadlineSetBegin(g, t) ==
    /\ dl.pc[g] = "idle"
    /\ dl.calls < MaxSets
    /\ dl' = [dl EXCEPT !.pc[g] = "lock", !.arg[g] = t, !.calls = @ + 1]
    /\ DeadlineUnchanged

\* d.mu.Lock().
DeadlineSetLock(g) ==
    /\ dl.pc[g] = "lock"
    /\ dl.mu = "free"
    /\ dl' = [dl EXCEPT !.mu = g, !.pc[g] = "stop"]
    /\ DeadlineUnchanged

\* A variant of DeadlineSetStop that does not wait for the callback of a timer
\* that Stop could not stop.
DeadlineSetStopNoWait(g) ==
    /\ dl.pc[g] = "stop"
    /\ dl' = IF dl.timer # 0 /\ dl.timers[dl.timer].state = "armed"
             THEN [dl EXCEPT !.timers[dl.timer].state = "stopped", !.pc[g] = "rest"]
             ELSE [dl EXCEPT !.pc[g] = "rest"]
    /\ DeadlineUnchanged

\* if d.timer != nil && !d.timer.Stop(): Stop returns true for a timer that has not
\* expired, and false once it has.
DeadlineSetStop(g) ==
    /\ dl.pc[g] = "stop"
    /\ dl' = IF dl.timer = 0 THEN [dl EXCEPT !.pc[g] = "rest"]
             ELSE IF dl.timers[dl.timer].state = "armed"
             THEN [dl EXCEPT !.timers[dl.timer].state = "stopped", !.pc[g] = "rest"]
             ELSE [dl EXCEPT !.pc[g] = "wait"]
    /\ DeadlineUnchanged

\* <-d.cancel: it returns once the channel is closed.
DeadlineSetWait(g) ==
    /\ dl.pc[g] = "wait"
    /\ isClosedChan(dl)
    /\ dl' = [dl EXCEPT !.pc[g] = "rest"]
    /\ DeadlineUnchanged

\* A variant of SetRest that keeps a closed channel for a time in the future.
SetRestKeepsClosed(d, t) ==
    LET closed == isClosedChan(d)
    IN  IF t = "zero" THEN [(IF closed THEN MakeCancel(d) ELSE d) EXCEPT !.timer = 0]
        ELSE IF t = "future"
        THEN [d EXCEPT !.timer = Len(d.timers) + 1,
                       !.timers = Append(@, [state |-> "armed", chan |-> d.cancel])]
        ELSE IF ~closed THEN [d EXCEPT !.timer = 0, !.closes[d.cancel] = @ + 1]
        ELSE [d EXCEPT !.timer = 0]

\* The deadline after the rest of Set(t): d.timer = nil, then the three cases.
SetRest(d, t) ==
    LET closed == isClosedChan(d)
        fresh == IF closed THEN MakeCancel(d) ELSE d
    IN  IF t = "zero" THEN [fresh EXCEPT !.timer = 0]
        ELSE IF t = "future"
        THEN [fresh EXCEPT !.timer = Len(d.timers) + 1,
                           !.timers = Append(@, [state |-> "armed", chan |-> fresh.cancel])]
        ELSE IF ~closed THEN [d EXCEPT !.timer = 0, !.closes[d.cancel] = @ + 1]
        ELSE [d EXCEPT !.timer = 0]

\* The rest of Set and its return, with the deferred d.mu.Unlock().
DeadlineSetRest(g) ==
    /\ dl.pc[g] = "rest"
    /\ dl' = [SetRest(dl, dl.arg[g]) EXCEPT !.mu = "free", !.pc[g] = "idle"]
    /\ DeadlineUnchanged

\* The time of timer i is reached: the runtime starts its callback.
TimerExpire(i) ==
    /\ i \in 1..Len(dl.timers)
    /\ dl.timers[i].state = "armed"
    /\ dl' = [dl EXCEPT !.timers[i].state = "fired"]
    /\ DeadlineUnchanged

\* The callback of timer i: close(d.cancel), of the channel d.cancel is then.
TimerCallback(i) ==
    /\ i \in 1..Len(dl.timers)
    /\ dl.timers[i].state = "fired"
    /\ dl' = [dl EXCEPT !.timers[i].state = "done", !.closes[dl.cancel] = @ + 1]
    /\ DeadlineUnchanged

(***************************************************************************)
(* SpecTimer: two goroutines call Set on one deadline with every kind of   *)
(* time while its timers expire.  SpecTimerFair schedules the goroutines   *)
(* and the callbacks, and lets the time of every timer come.               *)
(***************************************************************************)
TimerIds == 1..MaxSets

NextTimer ==
    \/ \E g \in Setters, t \in DeadlineTimeArgs : DeadlineSetBegin(g, t)
    \/ \E g \in Setters : DeadlineSetLock(g)
    \/ \E g \in Setters : DeadlineSetStop(g)
    \/ \E g \in Setters : DeadlineSetWait(g)
    \/ \E g \in Setters : DeadlineSetRest(g)
    \/ \E i \in TimerIds : TimerExpire(i)
    \/ \E i \in TimerIds : TimerCallback(i)

\* The steps of Set in g once it was called.
SetSteps(g) ==
    DeadlineSetLock(g) \/ DeadlineSetStop(g) \/ DeadlineSetWait(g) \/ DeadlineSetRest(g)

SpecTimer == Init /\ [][NextTimer]_vars
SpecTimerFair ==
    /\ SpecTimer
    /\ \A g \in Setters : WF_vars(SetSteps(g))
    /\ \A i \in TimerIds : WF_vars(TimerExpire(i)) /\ WF_vars(TimerCallback(i))

\* Set(t) of g returns in this step.
SetReturns(g, t) == dl.pc[g] = "rest" /\ dl'.pc[g] = "idle" /\ dl.arg[g] = t
\* Timer i is pending, its callback has been started, it was stopped, it has closed.
TimerIs(i, state) == i <= Len(dl.timers) /\ dl.timers[i].state = state

\* What Set leaves when it returns: for a time in the past a closed signal; for a
\* time in the future an open signal, a fresh one when the signal was closed, one
\* timer pending for that signal and none from before.
SetLeaves(g) ==
    /\ SetReturns(g, "past") => isClosedChan(dl') /\ dl'.timer = 0
    /\ SetReturns(g, "future") =>
          /\ ~isClosedChan(dl')
          /\ isClosedChan(dl) => dl'.cancel \notin 1..Len(dl.closes)
          /\ ~isClosedChan(dl) => dl'.cancel = dl.cancel
          /\ dl'.timer = Len(dl'.timers) /\ Len(dl'.timers) = Len(dl.timers) + 1
          /\ dl'.timers[dl'.timer] = [state |-> "armed", chan |-> dl'.cancel]
          /\ \A i \in 1..Len(dl.timers) : dl'.timers[i].state \notin {"armed", "fired"}

\* The callback of timer i closes the signal of the Set that started the timer,
\* which is still the signal of the deadline.
CallbackCloses(i) ==
    (TimerIs(i, "fired") /\ dl'.timers[i].state = "done")
        => /\ dl.cancel = dl.timers[i].chan /\ dl.timer = i
           /\ dl'.cancel = dl.cancel /\ isClosedChan(dl')

\* A timer that is pending, or whose callback has started, is the timer of the
\* deadline, whose signal is the one of the Set that started the timer and is open.
Superseded ==
    \A i \in TimerIds :
        TimerIs(i, "armed") \/ TimerIs(i, "fired")
            => dl.timer = i /\ dl.cancel = dl.timers[i].chan /\ ~isClosedChan(dl)

\* C34: Set with a time in the past leaves the signal closed when it returns; Set
\* with a time in the future leaves it open when it returns, replaces a signal that
\* was closed with a fresh open one and stops the timer that was pending, and the
\* signal closes when the time is reached unless a later Set superseded it; a
\* superseded timer never closes the signal of a later Set.
C34_SetAndTimer ==
    /\ [][\A g \in Setters : SetLeaves(g)]_vars
    /\ [][\A i \in TimerIds : CallbackCloses(i)]_vars
    /\ [][\A i \in TimerIds : TimerIs(i, "stopped") => dl'.timers[i].state = "stopped"]_vars
    /\ []Superseded
    /\ \A i \in TimerIds :
          TimerIs(i, "armed")
              ~> (TimerIs(i, "stopped")
                    \/ (TimerIs(i, "done") /\ dl.closes[dl.timers[i].chan] > 0))

\* The third Set stopped the timer of the second, which had replaced the signal that
\* the timer of the first closed; its own timer closed the fresh signal.
C34_Witness ==
    /\ Len(dl.timers) = 3
    /\ dl.timers[1].state = "done" /\ dl.timers[2].state = "stopped"
    /\ dl.timers[3].state = "done"
    /\ dl.cancel = 2 /\ dl.closes = <<1, 1>>

\* C35: under every interleaving of concurrent calls of Set and of the expiry of
\* the timers, each cancel channel is closed at most once, and Set never blocks
\* forever in its wait for the callback of a timer.
C35_CloseOnceNoHang ==
    /\ [](\A c \in 1..Len(dl.closes) : dl.closes[c] <= 1)
    /\ \A g \in Setters : (dl.pc[g] = "wait") ~> (dl.pc[g] = "idle")

\* A Set for a time in the past waits for the callback of the timer that expired,
\* while the other goroutine waits for the mutex.
C35_Witness ==
    \E g, h \in Setters :
        /\ dl.pc[g] = "wait" /\ dl.arg[g] = "past"
        /\ dl.timer # 0 /\ dl.timers[dl.timer].state = "fired"
        /\ dl.pc[h] = "lock"


(***************************************************************************)
(* SpecEmit: the server opens datagram ports with ListenPacket, on the     *)
(* wildcard address [::]:53 and on its own address, and answers a client   *)
(* with WriteTo from each; a device reads what the stack emits.            *)
(***************************************************************************)
EmitListenAddrs == {AddrPortFrom(IPv6Unspecified, 53), AddrPortFrom(ServerIP4, 53)}
EmitRemote == AddrPortFrom(ClientIP4, 1000)

NextEmit ==
    \/ \E a \in EmitListenAddrs : ListenPacket("server", "udp", a)
    \/ \E p \in PortIds : WritePacketBegin(p, << >>, 0, EmitRemote)
    \/ \E p \in PortIds : WritePacketReturn(p)
    \/ \E p \in PortIds : WritePacketSend(p)
    \/ \E p \in PortIds : WritePacketPark(p)
    \/ \E p \in PortIds : MuxRecv(p)
    \/ \E p \in PortIds : MuxPark(p)
    \/ \E p \in PortIds : MuxForward(p)
    \/ DeviceRecv("server")

SpecEmit == Init /\ [][NextEmit]_vars

\* C36: every packet a stack emits on its output has a source address that is one
\* of the local addresses of the stack, never the unspecified address, also the
\* answers written with WriteTo from a port that ListenPacket bound to the
\* wildcard address.
C36_SourceIsLocal ==
    \A s \in Stacks :
        \A i \in 1..Len(stackOut[s]) :
            /\ isLocalAddr(s, stackOut[s][i].SrcAddr)
            /\ ~IsUnspecified(stackOut[s][i].SrcAddr)

\* The output of the server holds a datagram from [::]:53.
C36_Witness ==
    \E i \in 1..Len(stackOut["server"]) :
        /\ stackOut["server"][i].SrcAddr = IPv6Unspecified
        /\ stackOut["server"][i].SrcPort = 53
        /\ stackOut["server"][i].DstAddr = ClientIP4


(***************************************************************************)
(* SpecTwoPorts: the server has the datagram ports A on s4:53 and B on     *)
(* s4:54; the owner of B reads, that of A does not; datagrams for both     *)
(* arrive.  SpecTwoPortsFair schedules demuxLoop and the reader of B.      *)
(***************************************************************************)
PortA == AddrPortFrom(ServerIP4, 53)
PortB == AddrPortFrom(ServerIP4, 54)
IsPortB(p) == Allocated(p) /\ portAddr[p].LocalAddr = PortB

\* The two ports are opened, A first.
TwoPortsListen ==
    \/ nextId = 0 /\ ListenPacket("server", "udp", PortA)
    \/ nextId = 1 /\ ListenPacket("server", "udp", PortB)
\* The owner of B calls ReadPacket.
TwoPortsRead == \E p \in PortIds : IsPortB(p) /\ ReadPacketBegin(p)
\* A datagram for A or for B arrives, once both ports are open.
TwoPortsArrive == nextId = 2 /\ \E pkt \in StackClosePackets : DeviceSend("server", pkt)

NextTwoPorts ==
    \/ TwoPortsListen
    \/ TwoPortsRead
    \/ TwoPortsArrive
    \/ \E p \in PortIds : ReadPacketReturn(p)
    \/ \E p \in PortIds : ReadPacketRecv(p)
    \/ \E p \in PortIds : ReadPacketPark(p)
    \/ DemuxRecv("server")
    \/ DemuxDeliverSend("server")
    \/ DemuxDeliverPark("server")

\* The steps of demuxLoop of the server, and of ReadPacket on p.
TwoPortsDemux ==
    DemuxRecv("server") \/ DemuxDeliverSend("server") \/ DemuxDeliverPark("server")
TwoPortsReader(p) == ReadPacketRecv(p) \/ ReadPacketPark(p)

SpecTwoPorts == Init /\ [][NextTwoPorts]_vars
SpecTwoPortsFair ==
    /\ SpecTwoPorts
    /\ WF_vars(TwoPortsDemux)
    /\ \A p \in PortIds : WF_vars(TwoPortsReader(p))

\* A datagram for B is in the input of the server.
ForPortB == \E i \in 1..Len(stackIn["server"]) : stackIn["server"][i].DstPort = PortB.port

\* C37: a port whose owner does not read does not prevent the delivery to the other
\* ports of its stack: a datagram for port B is eventually delivered to the reader
\* that is blocked on B, also when an earlier datagram for the open port A is not
\* delivered because nobody reads A.
C37_NoHeadOfLineBlocking ==
    \A p \in PortIds :
        (IsPortB(p) /\ ReadPending(p) /\ ForPortB)
            ~> (rdPc[p] = "done" /\ rdRes[p].err = "nil")

\* demux is blocked in its send to the input of A while a datagram for B waits in
\* the input of the stack and the reader of B is parked.
C37_Witness ==
    \E p \in PortIds :
        /\ IsPortB(p) /\ rdPc[p] = "parked" /\ ForPortB
        /\ demuxPc["server"] = "parked"
        /\ demuxPort["server"] # NoPort /\ portAddr[demuxPort["server"]].LocalAddr = PortA


(***************************************************************************)
(* TCPConn.Read after it returned EOF or ECONNRESET, in SpecReadFair.      *)
(***************************************************************************)
\* The steps of the goroutine that calls Read on p, and of demuxLoop of its stack.
ReadSteps(p) ==
    ReadBuf(p) \/ ReadPacketDone(p) \/ ReadReturn(p) \/ ReadPacketRecv(p)
        \/ ReadPacketDeadline(p) \/ ReadPacketPark(p)
ReadDemuxSteps(s) == DemuxRecv(s) \/ DemuxDeliverSend(s) \/ DemuxDeliverPark(s)

\* SpecRead with the scheduler of Go: the reader and demuxLoop take the steps they
\* can take.  The caller need not call Read again and the peer need not send.
SpecReadFair ==
    /\ SpecRead
    /\ WF_vars(ReadSteps(1))
    /\ WF_vars(ReadDemuxSteps("client"))

\* Read on p has returned err.
ReadFailedWith(p, err) == readPc[p] = "done" /\ readRes[p].err = err

\* C38: once TCPConn.Read has returned EOF (a FIN was received) or CONNRESET (an RST
\* was received), every later Read on that connection returns the same error, and
\* it does not wait for another packet.
C38_ReadErrorIsSticky ==
    \A p \in PortIds : \A err \in {"EOF", "ECONNRESET"} :
        [](ReadFailedWith(p, err) =>
              [](/\ readPc[p] = "done" => readRes[p].err = err
                 /\ readPc[p] # "packet"))

\* Read has returned EOF while a packet with payload waits in the input of the stack.
C38_Witness ==
    \E p \in PortIds :
        /\ ReadFailedWith(p, "EOF")
        /\ \E i \in 1..Len(stackIn[portStack[p]]) : Len(stackIn[portStack[p]][i].Payload) > 0


(***************************************************************************)
(* SpecExplicit: Listen and ListenPacket on the explicit port 49152 of the *)
(* IPv4 address of the server and on port 0 of the same address, and dials *)
(* of the server.                                                          *)
(***************************************************************************)
ExplicitAddrs == {AddrPortFrom(ServerIP4, firstEphemeralPort)}
ZeroPortAddrs == {AddrPortFrom(ServerIP4, 0)}

\* Listen and ListenPacket with an explicit port.
ListenExplicit ==
    \/ \E a \in ExplicitAddrs : Listen("server", "tcp", a)
    \/ \E a \in ExplicitAddrs : ListenPacket("server", "udp", a)

\* The calls that ask for an ephemeral port: Listen and ListenPacket with port 0,
\* and the dials.
ListenZeroPort ==
    \/ \E a \in ZeroPortAddrs : Listen("server", "tcp", a)
    \/ \E a \in ZeroPortAddrs : ListenPacket("server", "udp", a)
DialEphemeral ==
    \/ \E a \in EphemeralDialAddrs : DialUDP("server", "udp", a)
    \/ \E a \in EphemeralDialAddrs : DialTCPPort("server", a)

NextExplicit ==
    \/ ListenExplicit
    \/ ListenZeroPort
    \/ DialEphemeral

SpecExplicit == InitEphemeral /\ [][NextExplicit]_vars

\* The ephemeral range of protocol pr is exhausted on stack s.
Exhausted(s, pr) == nextport[s][pr] >= MaxUint16

\* C39: Listen or ListenPacket with port 0, and dial, fail with ADDRINUSE only when
\* the ephemeral range of the protocol is exhausted: the allocation does not collide
\* with a port that was bound explicitly before, such as a listener on port 49152 of
\* the same address; and a failed allocation does not consume a port number.
C39_EphemeralNoCollision ==
    [][(ListenZeroPort \/ DialEphemeral) /\ apiRes'.err # "nil" =>
          /\ apiRes'.err = "EADDRINUSE" => Exhausted("server", ProtocolOf(apiRes'.op))
          /\ nextport' = nextport]_vars

\* Listen with port 0 failed with EADDRINUSE while the TCP counter is past the port
\* of the explicit listener and far from the end of the range.
C39_Witness ==
    /\ apiRes = [op |-> "Listen", err |-> "EADDRINUSE", port |-> NoPort]
    /\ nextport["server"][IPProtocolTCP] = firstEphemeralPort + 1
    /\ \E p \in PortIds :
          /\ Allocated(p)
          /\ portAddr[p] = NewPortAddr(AddrPortFrom(ServerIP4, firstEphemeralPort),
                                       IPProtocolTCP, NoAddrPort)


(***************************************************************************)
(* forward of package geolink: a select over the output of the source, the *)
(* ticker and the EOF channels of the two devices.  The ticker starts with *)
(* the period of one minute.  A ticker of this Go version holds at most    *)
(* one tick and Reset discards a tick that was not received.               *)
(***************************************************************************)
MaxGeoPackets == 3

GeoRunning == gl.pc \in {"select", "send"}

\* The source device emits the next packet on its output channel.
GeoEmit ==
    /\ gl.sent < MaxGeoPackets /\ ~gl.srcEof
    /\ Len(gl.srcOut) < ChanCap
    /\ gl' = [gl EXCEPT !.sent = @ + 1, !.srcOut = Append(@, gl.sent + 1)]
    /\ GeoUnchanged

\* The period of the ticker has passed: a tick is ready on ticker.C.
GeoTick ==
    /\ GeoRunning /\ ~gl.tick
    /\ gl' = [gl EXCEPT !.tick = TRUE]
    /\ GeoUnchanged

\* case pkt := <-src.Output(): the packet is appended and, when it is the only one,
\* the ticker is reset to the delay.
GeoRecv ==
    /\ gl.pc = "select" /\ gl.srcOut # << >>
    /\ LET q == Append(gl.packets, Head(gl.srcOut))
       IN  gl' = [gl EXCEPT !.srcOut = Tail(@), !.packets = q,
                            !.period = IF Len(q) = 1 THEN "delay" ELSE @,
                            !.tick = IF Len(q) = 1 THEN FALSE ELSE @]
    /\ GeoUnchanged

\* case <-ticker.C: pkt := packets[0], which panics on the empty queue; then the
\* queue loses its head, the ticker is reset to one minute when the queue is empty,
\* and the inner select begins.
GeoTimer ==
    /\ gl.pc = "select" /\ gl.tick
    /\ IF gl.packets = << >>
       THEN gl' = [gl EXCEPT !.tick = FALSE, !.pc = "panic"]
       ELSE LET q == Tail(gl.packets)
            IN  gl' = [gl EXCEPT !.pkt = Head(gl.packets), !.packets = q,
                                 !.period = IF Len(q) <= 0 THEN "minute" ELSE @,
                                 !.tick = FALSE, !.pc = "send"]
    /\ GeoUnchanged

\* case dst.Input() <- pkt, of the inner select.
GeoSend ==
    /\ gl.pc = "send" /\ Len(gl.dstIn) < ChanCap
    /\ gl' = [gl EXCEPT !.dstIn = Append(@, gl.pkt), !.pkt = 0, !.pc = "select"]
    /\ GeoUnchanged

\* case <-src.EOF() and case <-dst.EOF(), of either select: forward returns and its
\* deferred ticker.Stop() runs.
GeoEof ==
    /\ GeoRunning /\ (gl.srcEof \/ gl.dstEof)
    /\ gl' = [gl EXCEPT !.pc = "exit", !.tick = FALSE]
    /\ GeoUnchanged

\* The destination takes a packet from its input channel.
GeoTake ==
    /\ gl.dstIn # << >>
    /\ gl' = [gl EXCEPT !.dstIn = Tail(@), !.got = Append(@, Head(gl.dstIn))]
    /\ GeoUnchanged

\* The source or the destination device is closed.
GeoCloseSrc == ~gl.srcEof /\ gl' = [gl EXCEPT !.srcEof = TRUE] /\ GeoUnchanged
GeoCloseDst == ~gl.dstEof /\ gl' = [gl EXCEPT !.dstEof = TRUE] /\ GeoUnchanged

NextGeolink ==
    \/ GeoEmit
    \/ GeoTick
    \/ GeoRecv
    \/ GeoTimer
    \/ GeoSend
    \/ GeoEof
    \/ GeoTake
    \/ GeoCloseSrc
    \/ GeoCloseDst

SpecGeolink == Init /\ [][NextGeolink]_vars

\* The packets the source emitted, in order.
GeoEmitted == [i \in 1..gl.sent |-> i]

\* C40: the forward task does not dequeue from an empty queue: whenever its timer
\* branch runs the queue of pending packets is not empty, also when the ticker fires
\* after the link has been idle; and the packets it forwards reach the destination in
\* the order in which they arrived.
C40_ForwardNeverEmpty ==
    /\ gl.pc # "panic"
    /\ IsPrefix(gl.got \o gl.dstIn, GeoEmitted)

\* The timer branch ran on the empty queue after forward had delivered a packet and
\* the link had become idle.
C40_Witness ==
    /\ gl.pc = "panic" /\ gl.packets = << >> /\ gl.srcOut = << >>
    /\ gl.got = <<1>> /\ gl.sent = 1


====
